---- MODULE Spec2Model ----
(***************************************************************************)
(* Model of gorgonia's generated comparison kernels (package tensor, the   *)
(* file of eq/gt/gte/lt/lte kernels) and of cmd/genapi, the generator of   *)
(* the pointwise-operator API.                                             *)
(*                                                                         *)
(* The kernel matrix is transcribed func by func: every record of          *)
(* EqKernels .. LteKernels is one func of the source, with the pieces of   *)
(* its name, its signature and its body kept apart, so that what a kernel  *)
(* is called and what it computes can be compared.                         *)
(***************************************************************************)
EXTENDS Integers, Sequences, FiniteSets, TLC

VARIABLES
  kern,    \* the kernel being called (a record of the kernel matrix)
  heap,    \* memory: block id -> the slice's backing array (a sequence)
  orig,    \* the input slices as the callers were handed them
  scalar,  \* the scalar argument b of an array-scalar kernel
  call,    \* caller -> its invocation (position in the kernel, arguments, result)
  gen      \* genapi: the run of the generator (see the genapi section)

vars == <<kern, heap, orig, scalar, call, gen>>

----------------------------------------------------------------------------
(* Bounds of the model.                                                    *)

\* longest input slice handed to a kernel
MaxLen == 2
\* number of goroutines calling kernels at the same time
NumCallers == 2

----------------------------------------------------------------------------
(* The kernel matrix.                                                      *)

\* One func of the source.  op, shp, res, knd are the four pieces of the
\* func's name (<op><shape><resultKind><typeSuffix>); elem, bslice and ret
\* are its signature (a []elem, b []elem or b elem, retVal []ret); tok, rhs
\* and body are its loop body: "assign" is  retVal[i] = v tok rhs  and
\* <<"branch", x, y>> is  if v tok rhs { retVal[i] = x } else { retVal[i] = y }.
K(op, shp, res, knd, elem, bslice, ret, tok, rhs, body, line) ==
  [ name |-> op \o shp \o res \o knd,
    op |-> op, shp |-> shp, res |-> res, knd |-> knd,
    elem |-> elem, bslice |-> bslice, ret |-> ret,
    tok |-> tok, rhs |-> rhs, body |-> body, line |-> line ]

\* /* Eq */ : the kernels of lines 11-633, one record per func.
EqKernels ==
  { K("eq", "DD", "Bools", "B", "bool", TRUE, "bool", "==", "b[i]", <<"assign">>, 11),
    K("eq", "DS", "Bools", "B", "bool", FALSE, "bool", "==", "b", <<"assign">>, 19),
    K("eq", "DD", "Bools", "I", "int", TRUE, "bool", "==", "b[i]", <<"assign">>, 27),
    K("eq", "DD", "Same", "I", "int", TRUE, "int", "==", "b[i]", <<"branch", 1, 0>>, 35),
    K("eq", "DS", "Bools", "I", "int", FALSE, "bool", "==", "b", <<"assign">>, 47),
    K("eq", "DS", "Same", "I", "int", FALSE, "int", "==", "b", <<"branch", 1, 0>>, 55),
    K("eq", "DD", "Bools", "I8", "int8", TRUE, "bool", "==", "b[i]", <<"assign">>, 67),
    K("eq", "DD", "Same", "I8", "int8", TRUE, "int8", "==", "b[i]", <<"branch", 1, 0>>, 75),
    K("eq", "DS", "Bools", "I8", "int8", FALSE, "bool", "==", "b", <<"assign">>, 87),
    K("eq", "DS", "Same", "I8", "int8", FALSE, "int8", "==", "b", <<"branch", 1, 0>>, 95),
    K("eq", "DD", "Bools", "I16", "int16", TRUE, "bool", "==", "b[i]", <<"assign">>, 107),
    K("eq", "DD", "Same", "I16", "int16", TRUE, "int16", "==", "b[i]", <<"branch", 1, 0>>, 115),
    K("eq", "DS", "Bools", "I16", "int16", FALSE, "bool", "==", "b", <<"assign">>, 127),
    K("eq", "DS", "Same", "I16", "int16", FALSE, "int16", "==", "b", <<"branch", 1, 0>>, 135),
    K("eq", "DD", "Bools", "I32", "int32", TRUE, "bool", "==", "b[i]", <<"assign">>, 147),
    K("eq", "DD", "Same", "I32", "int32", TRUE, "int32", "==", "b[i]", <<"branch", 1, 0>>, 155),
    K("eq", "DS", "Bools", "I32", "int32", FALSE, "bool", "==", "b", <<"assign">>, 167),
    K("eq", "DS", "Same", "I32", "int32", FALSE, "int32", "==", "b", <<"branch", 1, 0>>, 175),
    K("eq", "DD", "Bools", "I64", "int64", TRUE, "bool", "==", "b[i]", <<"assign">>, 187),
    K("eq", "DD", "Same", "I64", "int64", TRUE, "int64", "==", "b[i]", <<"branch", 1, 0>>, 195),
    K("eq", "DS", "Bools", "I64", "int64", FALSE, "bool", "==", "b", <<"assign">>, 207),
    K("eq", "DS", "Same", "I64", "int64", FALSE, "int64", "==", "b", <<"branch", 1, 0>>, 215),
    K("eq", "DD", "Bools", "U", "uint", TRUE, "bool", "==", "b[i]", <<"assign">>, 227),
    K("eq", "DD", "Same", "U", "uint", TRUE, "uint", "==", "b[i]", <<"branch", 1, 0>>, 235),
    K("eq", "DS", "Bools", "U", "uint", FALSE, "bool", "==", "b", <<"assign">>, 247),
    K("eq", "DS", "Same", "U", "uint", FALSE, "uint", "==", "b", <<"branch", 1, 0>>, 255),
    K("eq", "DD", "Bools", "U8", "uint8", TRUE, "bool", "==", "b[i]", <<"assign">>, 267),
    K("eq", "DD", "Same", "U8", "uint8", TRUE, "uint8", "==", "b[i]", <<"branch", 1, 0>>, 275),
    K("eq", "DS", "Bools", "U8", "uint8", FALSE, "bool", "==", "b", <<"assign">>, 287),
    K("eq", "DS", "Same", "U8", "uint8", FALSE, "uint8", "==", "b", <<"branch", 1, 0>>, 295),
    K("eq", "DD", "Bools", "U16", "uint16", TRUE, "bool", "==", "b[i]", <<"assign">>, 307),
    K("eq", "DD", "Same", "U16", "uint16", TRUE, "uint16", "==", "b[i]", <<"branch", 1, 0>>, 315),
    K("eq", "DS", "Bools", "U16", "uint16", FALSE, "bool", "==", "b", <<"assign">>, 327),
    K("eq", "DS", "Same", "U16", "uint16", FALSE, "uint16", "==", "b", <<"branch", 1, 0>>, 335),
    K("eq", "DD", "Bools", "U32", "uint32", TRUE, "bool", "==", "b[i]", <<"assign">>, 347),
    K("eq", "DD", "Same", "U32", "uint32", TRUE, "uint32", "==", "b[i]", <<"branch", 1, 0>>, 355),
    K("eq", "DS", "Bools", "U32", "uint32", FALSE, "bool", "==", "b", <<"assign">>, 367),
    K("eq", "DS", "Same", "U32", "uint32", FALSE, "uint32", "==", "b", <<"branch", 1, 0>>, 375),
    K("eq", "DD", "Bools", "U64", "uint64", TRUE, "bool", "==", "b[i]", <<"assign">>, 387),
    K("eq", "DD", "Same", "U64", "uint64", TRUE, "uint64", "==", "b[i]", <<"branch", 1, 0>>, 395),
    K("eq", "DS", "Bools", "U64", "uint64", FALSE, "bool", "==", "b", <<"assign">>, 407),
    K("eq", "DS", "Same", "U64", "uint64", FALSE, "uint64", "==", "b", <<"branch", 1, 0>>, 415),
    K("eq", "DD", "Bools", "Uintptr", "uintptr", TRUE, "bool", "==", "b[i]", <<"assign">>, 427),
    K("eq", "DS", "Bools", "Uintptr", "uintptr", FALSE, "bool", "==", "b", <<"assign">>, 435),
    K("eq", "DD", "Bools", "F32", "float32", TRUE, "bool", "==", "b[i]", <<"assign">>, 443),
    K("eq", "DD", "Same", "F32", "float32", TRUE, "float32", "==", "b[i]", <<"branch", 1, 0>>, 451),
    K("eq", "DS", "Bools", "F32", "float32", FALSE, "bool", "==", "b", <<"assign">>, 463),
    K("eq", "DS", "Same", "F32", "float32", FALSE, "float32", "==", "b", <<"branch", 1, 0>>, 471),
    K("eq", "DD", "Bools", "F64", "float64", TRUE, "bool", "==", "b[i]", <<"assign">>, 483),
    K("eq", "DD", "Same", "F64", "float64", TRUE, "float64", "==", "b[i]", <<"branch", 1, 0>>, 491),
    K("eq", "DS", "Bools", "F64", "float64", FALSE, "bool", "==", "b", <<"assign">>, 503),
    K("eq", "DS", "Same", "F64", "float64", FALSE, "float64", "==", "b", <<"branch", 1, 0>>, 511),
    K("eq", "DD", "Bools", "C64", "complex64", TRUE, "bool", "==", "b[i]", <<"assign">>, 523),
    K("eq", "DD", "Same", "C64", "complex64", TRUE, "complex64", "==", "b[i]", <<"branch", 1, 0>>, 531),
    K("eq", "DS", "Bools", "C64", "complex64", FALSE, "bool", "==", "b", <<"assign">>, 543),
    K("eq", "DS", "Same", "C64", "complex64", FALSE, "complex64", "==", "b", <<"branch", 1, 0>>, 551),
    K("eq", "DD", "Bools", "C128", "complex128", TRUE, "bool", "==", "b[i]", <<"assign">>, 563),
    K("eq", "DD", "Same", "C128", "complex128", TRUE, "complex128", "==", "b[i]", <<"branch", 1, 0>>, 571),
    K("eq", "DS", "Bools", "C128", "complex128", FALSE, "bool", "==", "b", <<"assign">>, 583),
    K("eq", "DS", "Same", "C128", "complex128", FALSE, "complex128", "==", "b", <<"branch", 1, 0>>, 591),
    K("eq", "DD", "Bools", "Str", "string", TRUE, "bool", "==", "b[i]", <<"assign">>, 603),
    K("eq", "DS", "Bools", "Str", "string", FALSE, "bool", "==", "b", <<"assign">>, 611),
    K("eq", "DD", "Bools", "UnsafePointer", "unsafe.Pointer", TRUE, "bool", "==", "b[i]", <<"assign">>, 619),
    K("eq", "DS", "Bools", "UnsafePointer", "unsafe.Pointer", FALSE, "bool", "==", "b", <<"assign">>, 627) }

\* /* Gt */ : the kernels of lines 637-1147, one record per func.
GtKernels ==
  { K("gt", "DD", "Bools", "I", "int", TRUE, "bool", ">", "b[i]", <<"assign">>, 637),
    K("gt", "DD", "Same", "I", "int", TRUE, "int", ">", "b[i]", <<"branch", 1, 0>>, 645),
    K("gt", "DS", "Bools", "I", "int", FALSE, "bool", ">", "b", <<"assign">>, 657),
    K("gt", "DS", "Same", "I", "int", FALSE, "int", ">", "b", <<"branch", 1, 0>>, 665),
    K("gt", "DD", "Bools", "I8", "int8", TRUE, "bool", ">", "b[i]", <<"assign">>, 677),
    K("gt", "DD", "Same", "I8", "int8", TRUE, "int8", ">", "b[i]", <<"branch", 1, 0>>, 685),
    K("gt", "DS", "Bools", "I8", "int8", FALSE, "bool", ">", "b", <<"assign">>, 697),
    K("gt", "DS", "Same", "I8", "int8", FALSE, "int8", ">", "b", <<"branch", 1, 0>>, 705),
    K("gt", "DD", "Bools", "I16", "int16", TRUE, "bool", ">", "b[i]", <<"assign">>, 717),
    K("gt", "DD", "Same", "I16", "int16", TRUE, "int16", ">", "b[i]", <<"branch", 1, 0>>, 725),
    K("gt", "DS", "Bools", "I16", "int16", FALSE, "bool", ">", "b", <<"assign">>, 737),
    K("gt", "DS", "Same", "I16", "int16", FALSE, "int16", ">", "b", <<"branch", 1, 0>>, 745),
    K("gt", "DD", "Bools", "I32", "int32", TRUE, "bool", ">", "b[i]", <<"assign">>, 757),
    K("gt", "DD", "Same", "I32", "int32", TRUE, "int32", ">", "b[i]", <<"branch", 1, 0>>, 765),
    K("gt", "DS", "Bools", "I32", "int32", FALSE, "bool", ">", "b", <<"assign">>, 777),
    K("gt", "DS", "Same", "I32", "int32", FALSE, "int32", ">", "b", <<"branch", 1, 0>>, 785),
    K("gt", "DD", "Bools", "I64", "int64", TRUE, "bool", ">", "b[i]", <<"assign">>, 797),
    K("gt", "DD", "Same", "I64", "int64", TRUE, "int64", ">", "b[i]", <<"branch", 1, 0>>, 805),
    K("gt", "DS", "Bools", "I64", "int64", FALSE, "bool", ">", "b", <<"assign">>, 817),
    K("gt", "DS", "Same", "I64", "int64", FALSE, "int64", ">", "b", <<"branch", 1, 0>>, 825),
    K("gt", "DD", "Bools", "U", "uint", TRUE, "bool", ">", "b[i]", <<"assign">>, 837),
    K("gt", "DD", "Same", "U", "uint", TRUE, "uint", ">", "b[i]", <<"branch", 1, 0>>, 845),
    K("gt", "DS", "Bools", "U", "uint", FALSE, "bool", ">", "b", <<"assign">>, 857),
    K("gt", "DS", "Same", "U", "uint", FALSE, "uint", ">", "b", <<"branch", 1, 0>>, 865),
    K("gt", "DD", "Bools", "U8", "uint8", TRUE, "bool", ">", "b[i]", <<"assign">>, 877),
    K("gt", "DD", "Same", "U8", "uint8", TRUE, "uint8", ">", "b[i]", <<"branch", 1, 0>>, 885),
    K("gt", "DS", "Bools", "U8", "uint8", FALSE, "bool", ">", "b", <<"assign">>, 897),
    K("gt", "DS", "Same", "U8", "uint8", FALSE, "uint8", ">", "b", <<"branch", 1, 0>>, 905),
    K("gt", "DD", "Bools", "U16", "uint16", TRUE, "bool", ">", "b[i]", <<"assign">>, 917),
    K("gt", "DD", "Same", "U16", "uint16", TRUE, "uint16", ">", "b[i]", <<"branch", 1, 0>>, 925),
    K("gt", "DS", "Bools", "U16", "uint16", FALSE, "bool", ">", "b", <<"assign">>, 937),
    K("gt", "DS", "Same", "U16", "uint16", FALSE, "uint16", ">", "b", <<"branch", 1, 0>>, 945),
    K("gt", "DD", "Bools", "U32", "uint32", TRUE, "bool", ">", "b[i]", <<"assign">>, 957),
    K("gt", "DD", "Same", "U32", "uint32", TRUE, "uint32", ">", "b[i]", <<"branch", 1, 0>>, 965),
    K("gt", "DS", "Bools", "U32", "uint32", FALSE, "bool", ">", "b", <<"assign">>, 977),
    K("gt", "DS", "Same", "U32", "uint32", FALSE, "uint32", ">", "b", <<"branch", 1, 0>>, 985),
    K("gt", "DD", "Bools", "U64", "uint64", TRUE, "bool", ">", "b[i]", <<"assign">>, 997),
    K("gt", "DD", "Same", "U64", "uint64", TRUE, "uint64", ">", "b[i]", <<"branch", 1, 0>>, 1005),
    K("gt", "DS", "Bools", "U64", "uint64", FALSE, "bool", ">", "b", <<"assign">>, 1017),
    K("gt", "DS", "Same", "U64", "uint64", FALSE, "uint64", ">", "b", <<"branch", 1, 0>>, 1025),
    K("gt", "DD", "Bools", "Uintptr", "uintptr", TRUE, "bool", ">", "b[i]", <<"assign">>, 1037),
    K("gt", "DS", "Bools", "Uintptr", "uintptr", FALSE, "bool", ">", "b", <<"assign">>, 1045),
    K("gt", "DD", "Bools", "F32", "float32", TRUE, "bool", ">", "b[i]", <<"assign">>, 1053),
    K("gt", "DD", "Same", "F32", "float32", TRUE, "float32", ">", "b[i]", <<"branch", 1, 0>>, 1061),
    K("gt", "DS", "Bools", "F32", "float32", FALSE, "bool", ">", "b", <<"assign">>, 1073),
    K("gt", "DS", "Same", "F32", "float32", FALSE, "float32", ">", "b", <<"branch", 1, 0>>, 1081),
    K("gt", "DD", "Bools", "F64", "float64", TRUE, "bool", ">", "b[i]", <<"assign">>, 1093),
    K("gt", "DD", "Same", "F64", "float64", TRUE, "float64", ">", "b[i]", <<"branch", 1, 0>>, 1101),
    K("gt", "DS", "Bools", "F64", "float64", FALSE, "bool", ">", "b", <<"assign">>, 1113),
    K("gt", "DS", "Same", "F64", "float64", FALSE, "float64", ">", "b", <<"branch", 1, 0>>, 1121),
    K("gt", "DD", "Bools", "Str", "string", TRUE, "bool", ">", "b[i]", <<"assign">>, 1133),
    K("gt", "DS", "Bools", "Str", "string", FALSE, "bool", ">", "b", <<"assign">>, 1141) }

\* /* Gte */ : the kernels of lines 1151-1661, one record per func.
GteKernels ==
  { K("gte", "DD", "Bools", "I", "int", TRUE, "bool", ">=", "b[i]", <<"assign">>, 1151),
    K("gte", "DD", "Same", "I", "int", TRUE, "int", ">=", "b[i]", <<"branch", 1, 0>>, 1159),
    K("gte", "DS", "Bools", "I", "int", FALSE, "bool", ">=", "b", <<"assign">>, 1171),
    K("gte", "DS", "Same", "I", "int", FALSE, "int", ">=", "b", <<"branch", 1, 0>>, 1179),
    K("gte", "DD", "Bools", "I8", "int8", TRUE, "bool", ">=", "b[i]", <<"assign">>, 1191),
    K("gte", "DD", "Same", "I8", "int8", TRUE, "int8", ">=", "b[i]", <<"branch", 1, 0>>, 1199),
    K("gte", "DS", "Bools", "I8", "int8", FALSE, "bool", ">=", "b", <<"assign">>, 1211),
    K("gte", "DS", "Same", "I8", "int8", FALSE, "int8", ">=", "b", <<"branch", 1, 0>>, 1219),
    K("gte", "DD", "Bools", "I16", "int16", TRUE, "bool", ">=", "b[i]", <<"assign">>, 1231),
    K("gte", "DD", "Same", "I16", "int16", TRUE, "int16", ">=", "b[i]", <<"branch", 1, 0>>, 1239),
    K("gte", "DS", "Bools", "I16", "int16", FALSE, "bool", ">=", "b", <<"assign">>, 1251),
    K("gte", "DS", "Same", "I16", "int16", FALSE, "int16", ">=", "b", <<"branch", 1, 0>>, 1259),
    K("gte", "DD", "Bools", "I32", "int32", TRUE, "bool", ">=", "b[i]", <<"assign">>, 1271),
    K("gte", "DD", "Same", "I32", "int32", TRUE, "int32", ">=", "b[i]", <<"branch", 1, 0>>, 1279),
    K("gte", "DS", "Bools", "I32", "int32", FALSE, "bool", ">=", "b", <<"assign">>, 1291),
    K("gte", "DS", "Same", "I32", "int32", FALSE, "int32", ">=", "b", <<"branch", 1, 0>>, 1299),
    K("gte", "DD", "Bools", "I64", "int64", TRUE, "bool", ">=", "b[i]", <<"assign">>, 1311),
    K("gte", "DD", "Same", "I64", "int64", TRUE, "int64", ">=", "b[i]", <<"branch", 1, 0>>, 1319),
    K("gte", "DS", "Bools", "I64", "int64", FALSE, "bool", ">=", "b", <<"assign">>, 1331),
    K("gte", "DS", "Same", "I64", "int64", FALSE, "int64", ">=", "b", <<"branch", 1, 0>>, 1339),
    K("gte", "DD", "Bools", "U", "uint", TRUE, "bool", ">=", "b[i]", <<"assign">>, 1351),
    K("gte", "DD", "Same", "U", "uint", TRUE, "uint", ">=", "b[i]", <<"branch", 1, 0>>, 1359),
    K("gte", "DS", "Bools", "U", "uint", FALSE, "bool", ">=", "b", <<"assign">>, 1371),
    K("gte", "DS", "Same", "U", "uint", FALSE, "uint", ">=", "b", <<"branch", 1, 0>>, 1379),
    K("gte", "DD", "Bools", "U8", "uint8", TRUE, "bool", ">=", "b[i]", <<"assign">>, 1391),
    K("gte", "DD", "Same", "U8", "uint8", TRUE, "uint8", ">=", "b[i]", <<"branch", 1, 0>>, 1399),
    K("gte", "DS", "Bools", "U8", "uint8", FALSE, "bool", ">=", "b", <<"assign">>, 1411),
    K("gte", "DS", "Same", "U8", "uint8", FALSE, "uint8", ">=", "b", <<"branch", 1, 0>>, 1419),
    K("gte", "DD", "Bools", "U16", "uint16", TRUE, "bool", ">=", "b[i]", <<"assign">>, 1431),
    K("gte", "DD", "Same", "U16", "uint16", TRUE, "uint16", ">=", "b[i]", <<"branch", 1, 0>>, 1439),
    K("gte", "DS", "Bools", "U16", "uint16", FALSE, "bool", ">=", "b", <<"assign">>, 1451),
    K("gte", "DS", "Same", "U16", "uint16", FALSE, "uint16", ">=", "b", <<"branch", 1, 0>>, 1459),
    K("gte", "DD", "Bools", "U32", "uint32", TRUE, "bool", ">=", "b[i]", <<"assign">>, 1471),
    K("gte", "DD", "Same", "U32", "uint32", TRUE, "uint32", ">=", "b[i]", <<"branch", 1, 0>>, 1479),
    K("gte", "DS", "Bools", "U32", "uint32", FALSE, "bool", ">=", "b", <<"assign">>, 1491),
    K("gte", "DS", "Same", "U32", "uint32", FALSE, "uint32", ">=", "b", <<"branch", 1, 0>>, 1499),
    K("gte", "DD", "Bools", "U64", "uint64", TRUE, "bool", ">=", "b[i]", <<"assign">>, 1511),
    K("gte", "DD", "Same", "U64", "uint64", TRUE, "uint64", ">=", "b[i]", <<"branch", 1, 0>>, 1519),
    K("gte", "DS", "Bools", "U64", "uint64", FALSE, "bool", ">=", "b", <<"assign">>, 1531),
    K("gte", "DS", "Same", "U64", "uint64", FALSE, "uint64", ">=", "b", <<"branch", 1, 0>>, 1539),
    K("gte", "DD", "Bools", "Uintptr", "uintptr", TRUE, "bool", ">=", "b[i]", <<"assign">>, 1551),
    K("gte", "DS", "Bools", "Uintptr", "uintptr", FALSE, "bool", ">=", "b", <<"assign">>, 1559),
    K("gte", "DD", "Bools", "F32", "float32", TRUE, "bool", ">=", "b[i]", <<"assign">>, 1567),
    K("gte", "DD", "Same", "F32", "float32", TRUE, "float32", ">=", "b[i]", <<"branch", 1, 0>>, 1575),
    K("gte", "DS", "Bools", "F32", "float32", FALSE, "bool", ">=", "b", <<"assign">>, 1587),
    K("gte", "DS", "Same", "F32", "float32", FALSE, "float32", ">=", "b", <<"branch", 1, 0>>, 1595),
    K("gte", "DD", "Bools", "F64", "float64", TRUE, "bool", ">=", "b[i]", <<"assign">>, 1607),
    K("gte", "DD", "Same", "F64", "float64", TRUE, "float64", ">=", "b[i]", <<"branch", 1, 0>>, 1615),
    K("gte", "DS", "Bools", "F64", "float64", FALSE, "bool", ">=", "b", <<"assign">>, 1627),
    K("gte", "DS", "Same", "F64", "float64", FALSE, "float64", ">=", "b", <<"branch", 1, 0>>, 1635),
    K("gte", "DD", "Bools", "Str", "string", TRUE, "bool", ">=", "b[i]", <<"assign">>, 1647),
    K("gte", "DS", "Bools", "Str", "string", FALSE, "bool", ">=", "b", <<"assign">>, 1655) }

\* /* Lt */ : the kernels of lines 1665-2175, one record per func.
LtKernels ==
  { K("lt", "DD", "Bools", "I", "int", TRUE, "bool", "<", "b[i]", <<"assign">>, 1665),
    K("lt", "DD", "Same", "I", "int", TRUE, "int", "<", "b[i]", <<"branch", 1, 0>>, 1673),
    K("lt", "DS", "Bools", "I", "int", FALSE, "bool", "<", "b", <<"assign">>, 1685),
    K("lt", "DS", "Same", "I", "int", FALSE, "int", "<", "b", <<"branch", 1, 0>>, 1693),
    K("lt", "DD", "Bools", "I8", "int8", TRUE, "bool", "<", "b[i]", <<"assign">>, 1705),
    K("lt", "DD", "Same", "I8", "int8", TRUE, "int8", "<", "b[i]", <<"branch", 1, 0>>, 1713),
    K("lt", "DS", "Bools", "I8", "int8", FALSE, "bool", "<", "b", <<"assign">>, 1725),
    K("lt", "DS", "Same", "I8", "int8", FALSE, "int8", "<", "b", <<"branch", 1, 0>>, 1733),
    K("lt", "DD", "Bools", "I16", "int16", TRUE, "bool", "<", "b[i]", <<"assign">>, 1745),
    K("lt", "DD", "Same", "I16", "int16", TRUE, "int16", "<", "b[i]", <<"branch", 1, 0>>, 1753),
    K("lt", "DS", "Bools", "I16", "int16", FALSE, "bool", "<", "b", <<"assign">>, 1765),
    K("lt", "DS", "Same", "I16", "int16", FALSE, "int16", "<", "b", <<"branch", 1, 0>>, 1773),
    K("lt", "DD", "Bools", "I32", "int32", TRUE, "bool", "<", "b[i]", <<"assign">>, 1785),
    K("lt", "DD", "Same", "I32", "int32", TRUE, "int32", "<", "b[i]", <<"branch", 1, 0>>, 1793),
    K("lt", "DS", "Bools", "I32", "int32", FALSE, "bool", "<", "b", <<"assign">>, 1805),
    K("lt", "DS", "Same", "I32", "int32", FALSE, "int32", "<", "b", <<"branch", 1, 0>>, 1813),
    K("lt", "DD", "Bools", "I64", "int64", TRUE, "bool", "<", "b[i]", <<"assign">>, 1825),
    K("lt", "DD", "Same", "I64", "int64", TRUE, "int64", "<", "b[i]", <<"branch", 1, 0>>, 1833),
    K("lt", "DS", "Bools", "I64", "int64", FALSE, "bool", "<", "b", <<"assign">>, 1845),
    K("lt", "DS", "Same", "I64", "int64", FALSE, "int64", "<", "b", <<"branch", 1, 0>>, 1853),
    K("lt", "DD", "Bools", "U", "uint", TRUE, "bool", "<", "b[i]", <<"assign">>, 1865),
    K("lt", "DD", "Same", "U", "uint", TRUE, "uint", "<", "b[i]", <<"branch", 1, 0>>, 1873),
    K("lt", "DS", "Bools", "U", "uint", FALSE, "bool", "<", "b", <<"assign">>, 1885),
    K("lt", "DS", "Same", "U", "uint", FALSE, "uint", "<", "b", <<"branch", 1, 0>>, 1893),
    K("lt", "DD", "Bools", "U8", "uint8", TRUE, "bool", "<", "b[i]", <<"assign">>, 1905),
    K("lt", "DD", "Same", "U8", "uint8", TRUE, "uint8", "<", "b[i]", <<"branch", 1, 0>>, 1913),
    K("lt", "DS", "Bools", "U8", "uint8", FALSE, "bool", "<", "b", <<"assign">>, 1925),
    K("lt", "DS", "Same", "U8", "uint8", FALSE, "uint8", "<", "b", <<"branch", 1, 0>>, 1933),
    K("lt", "DD", "Bools", "U16", "uint16", TRUE, "bool", "<", "b[i]", <<"assign">>, 1945),
    K("lt", "DD", "Same", "U16", "uint16", TRUE, "uint16", "<", "b[i]", <<"branch", 1, 0>>, 1953),
    K("lt", "DS", "Bools", "U16", "uint16", FALSE, "bool", "<", "b", <<"assign">>, 1965),
    K("lt", "DS", "Same", "U16", "uint16", FALSE, "uint16", "<", "b", <<"branch", 1, 0>>, 1973),
    K("lt", "DD", "Bools", "U32", "uint32", TRUE, "bool", "<", "b[i]", <<"assign">>, 1985),
    K("lt", "DD", "Same", "U32", "uint32", TRUE, "uint32", "<", "b[i]", <<"branch", 1, 0>>, 1993),
    K("lt", "DS", "Bools", "U32", "uint32", FALSE, "bool", "<", "b", <<"assign">>, 2005),
    K("lt", "DS", "Same", "U32", "uint32", FALSE, "uint32", "<", "b", <<"branch", 1, 0>>, 2013),
    K("lt", "DD", "Bools", "U64", "uint64", TRUE, "bool", "<", "b[i]", <<"assign">>, 2025),
    K("lt", "DD", "Same", "U64", "uint64", TRUE, "uint64", "<", "b[i]", <<"branch", 1, 0>>, 2033),
    K("lt", "DS", "Bools", "U64", "uint64", FALSE, "bool", "<", "b", <<"assign">>, 2045),
    K("lt", "DS", "Same", "U64", "uint64", FALSE, "uint64", "<", "b", <<"branch", 1, 0>>, 2053),
    K("lt", "DD", "Bools", "Uintptr", "uintptr", TRUE, "bool", "<", "b[i]", <<"assign">>, 2065),
    K("lt", "DS", "Bools", "Uintptr", "uintptr", FALSE, "bool", "<", "b", <<"assign">>, 2073),
    K("lt", "DD", "Bools", "F32", "float32", TRUE, "bool", "<", "b[i]", <<"assign">>, 2081),
    K("lt", "DD", "Same", "F32", "float32", TRUE, "float32", "<", "b[i]", <<"branch", 1, 0>>, 2089),
    K("lt", "DS", "Bools", "F32", "float32", FALSE, "bool", "<", "b", <<"assign">>, 2101),
    K("lt", "DS", "Same", "F32", "float32", FALSE, "float32", "<", "b", <<"branch", 1, 0>>, 2109),
    K("lt", "DD", "Bools", "F64", "float64", TRUE, "bool", "<", "b[i]", <<"assign">>, 2121),
    K("lt", "DD", "Same", "F64", "float64", TRUE, "float64", "<", "b[i]", <<"branch", 1, 0>>, 2129),
    K("lt", "DS", "Bools", "F64", "float64", FALSE, "bool", "<", "b", <<"assign">>, 2141),
    K("lt", "DS", "Same", "F64", "float64", FALSE, "float64", "<", "b", <<"branch", 1, 0>>, 2149),
    K("lt", "DD", "Bools", "Str", "string", TRUE, "bool", "<", "b[i]", <<"assign">>, 2161),
    K("lt", "DS", "Bools", "Str", "string", FALSE, "bool", "<", "b", <<"assign">>, 2169) }

\* /* Lte */ : the kernels of lines 2179-2689, one record per func.
LteKernels ==
  { K("lte", "DD", "Bools", "I", "int", TRUE, "bool", "<=", "b[i]", <<"assign">>, 2179),
    K("lte", "DD", "Same", "I", "int", TRUE, "int", "<=", "b[i]", <<"branch", 1, 0>>, 2187),
    K("lte", "DS", "Bools", "I", "int", FALSE, "bool", "<=", "b", <<"assign">>, 2199),
    K("lte", "DS", "Same", "I", "int", FALSE, "int", "<=", "b", <<"branch", 1, 0>>, 2207),
    K("lte", "DD", "Bools", "I8", "int8", TRUE, "bool", "<=", "b[i]", <<"assign">>, 2219),
    K("lte", "DD", "Same", "I8", "int8", TRUE, "int8", "<=", "b[i]", <<"branch", 1, 0>>, 2227),
    K("lte", "DS", "Bools", "I8", "int8", FALSE, "bool", "<=", "b", <<"assign">>, 2239),
    K("lte", "DS", "Same", "I8", "int8", FALSE, "int8", "<=", "b", <<"branch", 1, 0>>, 2247),
    K("lte", "DD", "Bools", "I16", "int16", TRUE, "bool", "<=", "b[i]", <<"assign">>, 2259),
    K("lte", "DD", "Same", "I16", "int16", TRUE, "int16", "<=", "b[i]", <<"branch", 1, 0>>, 2267),
    K("lte", "DS", "Bools", "I16", "int16", FALSE, "bool", "<=", "b", <<"assign">>, 2279),
    K("lte", "DS", "Same", "I16", "int16", FALSE, "int16", "<=", "b", <<"branch", 1, 0>>, 2287),
    K("lte", "DD", "Bools", "I32", "int32", TRUE, "bool", "<=", "b[i]", <<"assign">>, 2299),
    K("lte", "DD", "Same", "I32", "int32", TRUE, "int32", "<=", "b[i]", <<"branch", 1, 0>>, 2307),
    K("lte", "DS", "Bools", "I32", "int32", FALSE, "bool", "<=", "b", <<"assign">>, 2319),
    K("lte", "DS", "Same", "I32", "int32", FALSE, "int32", "<=", "b", <<"branch", 1, 0>>, 2327),
    K("lte", "DD", "Bools", "I64", "int64", TRUE, "bool", "<=", "b[i]", <<"assign">>, 2339),
    K("lte", "DD", "Same", "I64", "int64", TRUE, "int64", "<=", "b[i]", <<"branch", 1, 0>>, 2347),
    K("lte", "DS", "Bools", "I64", "int64", FALSE, "bool", "<=", "b", <<"assign">>, 2359),
    K("lte", "DS", "Same", "I64", "int64", FALSE, "int64", "<=", "b", <<"branch", 1, 0>>, 2367),
    K("lte", "DD", "Bools", "U", "uint", TRUE, "bool", "<=", "b[i]", <<"assign">>, 2379),
    K("lte", "DD", "Same", "U", "uint", TRUE, "uint", "<=", "b[i]", <<"branch", 1, 0>>, 2387),
    K("lte", "DS", "Bools", "U", "uint", FALSE, "bool", "<=", "b", <<"assign">>, 2399),
    K("lte", "DS", "Same", "U", "uint", FALSE, "uint", "<=", "b", <<"branch", 1, 0>>, 2407),
    K("lte", "DD", "Bools", "U8", "uint8", TRUE, "bool", "<=", "b[i]", <<"assign">>, 2419),
    K("lte", "DD", "Same", "U8", "uint8", TRUE, "uint8", "<=", "b[i]", <<"branch", 1, 0>>, 2427),
    K("lte", "DS", "Bools", "U8", "uint8", FALSE, "bool", "<=", "b", <<"assign">>, 2439),
    K("lte", "DS", "Same", "U8", "uint8", FALSE, "uint8", "<=", "b", <<"branch", 1, 0>>, 2447),
    K("lte", "DD", "Bools", "U16", "uint16", TRUE, "bool", "<=", "b[i]", <<"assign">>, 2459),
    K("lte", "DD", "Same", "U16", "uint16", TRUE, "uint16", "<=", "b[i]", <<"branch", 1, 0>>, 2467),
    K("lte", "DS", "Bools", "U16", "uint16", FALSE, "bool", "<=", "b", <<"assign">>, 2479),
    K("lte", "DS", "Same", "U16", "uint16", FALSE, "uint16", "<=", "b", <<"branch", 1, 0>>, 2487),
    K("lte", "DD", "Bools", "U32", "uint32", TRUE, "bool", "<=", "b[i]", <<"assign">>, 2499),
    K("lte", "DD", "Same", "U32", "uint32", TRUE, "uint32", "<=", "b[i]", <<"branch", 1, 0>>, 2507),
    K("lte", "DS", "Bools", "U32", "uint32", FALSE, "bool", "<=", "b", <<"assign">>, 2519),
    K("lte", "DS", "Same", "U32", "uint32", FALSE, "uint32", "<=", "b", <<"branch", 1, 0>>, 2527),
    K("lte", "DD", "Bools", "U64", "uint64", TRUE, "bool", "<=", "b[i]", <<"assign">>, 2539),
    K("lte", "DD", "Same", "U64", "uint64", TRUE, "uint64", "<=", "b[i]", <<"branch", 1, 0>>, 2547),
    K("lte", "DS", "Bools", "U64", "uint64", FALSE, "bool", "<=", "b", <<"assign">>, 2559),
    K("lte", "DS", "Same", "U64", "uint64", FALSE, "uint64", "<=", "b", <<"branch", 1, 0>>, 2567),
    K("lte", "DD", "Bools", "Uintptr", "uintptr", TRUE, "bool", "<=", "b[i]", <<"assign">>, 2579),
    K("lte", "DS", "Bools", "Uintptr", "uintptr", FALSE, "bool", "<=", "b", <<"assign">>, 2587),
    K("lte", "DD", "Bools", "F32", "float32", TRUE, "bool", "<=", "b[i]", <<"assign">>, 2595),
    K("lte", "DD", "Same", "F32", "float32", TRUE, "float32", "<=", "b[i]", <<"branch", 1, 0>>, 2603),
    K("lte", "DS", "Bools", "F32", "float32", FALSE, "bool", "<=", "b", <<"assign">>, 2615),
    K("lte", "DS", "Same", "F32", "float32", FALSE, "float32", "<=", "b", <<"branch", 1, 0>>, 2623),
    K("lte", "DD", "Bools", "F64", "float64", TRUE, "bool", "<=", "b[i]", <<"assign">>, 2635),
    K("lte", "DD", "Same", "F64", "float64", TRUE, "float64", "<=", "b[i]", <<"branch", 1, 0>>, 2643),
    K("lte", "DS", "Bools", "F64", "float64", FALSE, "bool", "<=", "b", <<"assign">>, 2655),
    K("lte", "DS", "Same", "F64", "float64", FALSE, "float64", "<=", "b", <<"branch", 1, 0>>, 2663),
    K("lte", "DD", "Bools", "Str", "string", TRUE, "bool", "<=", "b[i]", <<"assign">>, 2675),
    K("lte", "DS", "Bools", "Str", "string", FALSE, "bool", "<=", "b", <<"assign">>, 2683) }
\* Faulty variants of the file, each one func away from it (used to show that
\* the properties below depend on the funcs as written).
Sections == EqKernels \cup GtKernels \cup GteKernels \cup LtKernels \cup LteKernels
Named(n) == CHOOSE k \in Sections : k.name = n
\* gteDDBoolsI compares with > instead of >=
KernelsWrongTok ==
  (Sections \ {Named("gteDDBoolsI")}) \cup {[Named("gteDDBoolsI") EXCEPT !.tok = ">"]}
\* gtDSBoolsF64 compares with >= where gtDDBoolsF64 compares with >
KernelsScalarDrift ==
  (Sections \ {Named("gtDSBoolsF64")}) \cup {[Named("gtDSBoolsF64") EXCEPT !.tok = ">="]}
\* ltDSSameU64 stores 0 where the predicate holds and 1 where it does not
KernelsSwappedIndicator ==
  (Sections \ {Named("ltDSSameU64")})
    \cup {[Named("ltDSSameU64") EXCEPT !.body = <<"branch", 0, 1>>]}
\* a gtDDBoolsC64 is generated
KernelsComplexOrder ==
  Sections \cup {K("gt", "DD", "Bools", "C64", "complex64", TRUE, "bool", ">", "b[i]", <<"assign">>, 1)}
\* an eqDSSameUintptr is generated
KernelsUintptrSame ==
  Sections \cup {K("eq", "DS", "Same", "Uintptr", "uintptr", FALSE, "uintptr", "==", "b",
                  <<"branch", 1, 0>>, 1)}
\* lteDSSameF64 is not generated
KernelsMissing == Sections \ {Named("lteDSSameF64")}

\* The whole file: the five sections in the order of the source.
Kernels == EqKernels \cup GtKernels \cup GteKernels \cup LtKernels \cup LteKernels

----------------------------------------------------------------------------
(* Go values of the element types, and Go's comparison operators on them.  *)

\* A float32/float64 value: a number, or NaN.
F(n) == [nan |-> FALSE, v |-> n]
NaN == [nan |-> TRUE, v |-> 0]
\* A complex64/complex128 value: real and imaginary float parts.
C(re, im) == [re |-> re, im |-> im]

SignedTypes == {"int", "int8", "int16", "int32", "int64"}
UnsignedTypes == {"uint", "uint8", "uint16", "uint32", "uint64", "uintptr"}
FloatTypes == {"float32", "float64"}
ComplexTypes == {"complex64", "complex128"}

\* The values the inputs are drawn from, per element type.  A string is its
\* sequence of bytes; an unsafe.Pointer is an address (0 is nil).
Values(t) ==
  CASE t = "bool" -> BOOLEAN
    [] t \in SignedTypes -> {-1, 1}
    [] t \in UnsignedTypes -> {0, 1}
    [] t \in FloatTypes -> {F(0), F(1), NaN}
    [] t \in ComplexTypes -> {C(F(1), F(0)), C(F(0), F(1)), C(NaN, F(0))}
    [] t = "string" -> {<<1>>, <<1, 2>>, <<2>>}
    [] t = "unsafe.Pointer" -> {0, 1}

\* The zero value make() fills a fresh slice with.
Zero(t) ==
  CASE t = "bool" -> FALSE
    [] t \in SignedTypes \cup UnsignedTypes -> 0
    [] t \in FloatTypes -> F(0)
    [] t \in ComplexTypes -> C(F(0), F(0))
    [] t = "string" -> <<>>
    [] t = "unsafe.Pointer" -> 0

\* The untyped constant n (the 1 and 0 of the Same kernels) converted to type t.
Conv(t, n) ==
  CASE t \in SignedTypes \cup UnsignedTypes -> n
    [] t \in FloatTypes -> F(n)
    [] t \in ComplexTypes -> C(F(n), F(0))

\* Go's == and < on floats: every comparison with a NaN is false.
FloatEq(x, y) == ~x.nan /\ ~y.nan /\ x.v = y.v
FloatLt(x, y) == ~x.nan /\ ~y.nan /\ x.v < y.v

\* Go's < on strings: lexical, byte by byte; a proper prefix is smaller.
RECURSIVE StrLt(_, _)
StrLt(x, y) ==
  IF y = <<>> THEN FALSE
  ELSE IF x = <<>> THEN TRUE
  ELSE IF Head(x) # Head(y) THEN Head(x) < Head(y)
  ELSE StrLt(Tail(x), Tail(y))

\* x == y and x < y in Go, for operands of type t.
GoEq(t, x, y) ==
  CASE t \in FloatTypes -> FloatEq(x, y)
    [] t \in ComplexTypes -> FloatEq(x.re, y.re) /\ FloatEq(x.im, y.im)
    [] OTHER -> x = y
GoLt(t, x, y) ==
  CASE t \in FloatTypes -> FloatLt(x, y)
    [] t = "string" -> StrLt(x, y)
    [] OTHER -> x < y

\* The types Go defines <, <=, >, >= on.
Ordered(t) == t \in SignedTypes \cup UnsignedTypes \cup FloatTypes \cup {"string"}

\* v tok w, evaluated as Go does for operands of type t.  (An ordering token
\* on a type that is not ordered does not compile; no func of the source
\* has one.)
GoCmp(tok, t, v, w) ==
  CASE tok = "==" -> GoEq(t, v, w)
    [] tok = "<" /\ Ordered(t) -> GoLt(t, v, w)
    [] tok = ">" /\ Ordered(t) -> GoLt(t, w, v)
    [] tok = "<=" /\ Ordered(t) -> GoLt(t, v, w) \/ GoEq(t, v, w)
    [] tok = ">=" /\ Ordered(t) -> GoLt(t, w, v) \/ GoEq(t, v, w)
    [] OTHER -> FALSE

----------------------------------------------------------------------------
(* A kernel, statement by statement.  All 272 funcs have one of four       *)
(* bodies; the body of eqDDSameI (lines 35-45) is                          *)
(*     retVal = make([]int, len(a))                                        *)
(*     for i, v := range a {                                               *)
(*         if v == b[i] { retVal[i] = 1 } else { retVal[i] = 0 }           *)
(*     }                                                                   *)
(*     return retVal                                                       *)
(* and the others differ in b for b[i] and in  retVal[i] = v == b[i].      *)

\* The input slices live in blocks 1 (A) and 2 (B); 0 is "no block".
BlockA == 1
BlockB == 2
NoBlock == 0

\* The allocator hands out a block that is not in use.  Goroutine p is
\* served from its own span (two blocks are enough: a caller holds at most
\* two results).
Span(p) == {2 * p + 1, 2 * p + 2}
NewBlock(h, p) == CHOOSE n \in Span(p) \ DOMAIN h : \A m \in Span(p) \ DOMAIN h : n <= m

\* Faulty allocations: the result is written over the first argument
\* (retVal = a), or into one buffer shared by all calls.
AllocInPlace(h, p, a, t) == [blk |-> a, heap |-> h]
AllocShared(h, p, a, t) ==
  LET blk == 2 * NumCallers + 3
  IN  [blk |-> blk,
       heap |-> [x \in DOMAIN h \cup {blk} |->
                   IF x = blk THEN [j \in 1..Len(h[a]) |-> Zero(t)] ELSE h[x]]]

\* retVal = make([]t, len(a)): a fresh block of len(a) zero values.  a is
\* the block of the first argument, t the element type of the result.
Alloc(h, p, a, t) ==
  LET blk == NewBlock(h, p)
  IN  [blk |-> blk, heap |-> h @@ (blk :> [j \in 1..Len(h[a]) |-> Zero(t)])]

\* What one iteration stores in retVal[i] for the elements v (of a) and w
\* (b[i], or the scalar b).
Store(k, v, w) ==
  IF k.body[1] = "assign"
  THEN GoCmp(k.tok, k.elem, v, w)
  ELSE IF GoCmp(k.tok, k.elem, v, w)
       THEN Conv(k.ret, k.body[2])
       ELSE Conv(k.ret, k.body[3])

\* The run of kernel k on the slice a and the argument b (a slice when the
\* body reads b[i], a scalar when it reads b) as a function of its inputs:
\* the returned slice, or a panic when b[i] is out of range.
RECURSIVE Loop(_, _, _, _, _)
Loop(k, a, b, i, retVal) ==
  IF i > Len(a) THEN [panic |-> FALSE, retVal |-> retVal]
  ELSE IF k.rhs = "b[i]" /\ i > Len(b) THEN [panic |-> TRUE, retVal |-> <<>>]
  ELSE Loop(k, a, b, i + 1,
            [retVal EXCEPT ![i] = Store(k, a[i], IF k.rhs = "b[i]" THEN b[i] ELSE b)])
Run(k, a, b) == Loop(k, a, b, 1, [j \in 1..Len(a) |-> Zero(k.ret)])

\* genapi is not running.
GenOff == [pc |-> "off"]

Idle == [pc |-> "idle", a |-> NoBlock, b |-> NoBlock, ret |-> NoBlock, i |-> 0,
         rd |-> {}, wr |-> {}, first |-> NoBlock]

\* The blocks a caller may pass: the input slices that exist.
InputBlocks == DOMAIN orig

\* Caller p calls the kernel with the slices in blocks a and b (b is NoBlock
\* for an array-scalar kernel, which gets the scalar by value), and the
\* kernel's first statement allocates the result.
Enter(p, a, b, first) ==
  LET m == Alloc(heap, p, a, kern.ret)
  IN  /\ heap' = m.heap
      /\ call' = [call EXCEPT ![p] =
                    [pc |-> "loop", a |-> a, b |-> b, ret |-> m.blk, i |-> 0,
                     rd |-> {}, wr |-> {}, first |-> first]]
      /\ UNCHANGED <<kern, orig, scalar, gen>>

Call(p) ==
  /\ call[p].pc = "idle"
  /\ \E a \in InputBlocks :
       \E b \in (IF kern.bslice THEN InputBlocks ELSE {NoBlock}) :
         Enter(p, a, b, NoBlock)

\* A faulty loop bound: the shorter of the two slices.
RangeLenShorter(h, c) ==
  IF c.b # NoBlock /\ Len(h[c.b]) < Len(h[c.a]) THEN Len(h[c.b]) ELSE Len(h[c.a])

\* for i, v := range a: the number of iterations, fixed when the loop starts.
RangeLen(h, c) == Len(h[c.a])

\* One iteration of  for i, v := range a : read a[i] and b[i] (or b), store
\* into retVal[i].  Indexing b beyond its length panics.
Iterate(p) ==
  LET c == call[p]
      i == c.i + 1
  IN  /\ c.pc = "loop"
      /\ c.i < RangeLen(heap, c)
      /\ IF kern.rhs = "b[i]" /\ i > Len(heap[c.b])
         THEN /\ call' = [call EXCEPT ![p].pc = "panic",
                                      ![p].rd = c.rd \cup {<<c.a, i>>}]
              /\ heap' = heap
         ELSE LET v == heap[c.a][i]
                  w == IF kern.rhs = "b[i]" THEN heap[c.b][i] ELSE scalar
              IN  /\ heap' = [heap EXCEPT ![c.ret][i] = Store(kern, v, w)]
                  /\ call' = [call EXCEPT
                       ![p].i = i,
                       ![p].rd = c.rd \cup {<<c.a, i>>}
                                 \cup (IF kern.rhs = "b[i]" THEN {<<c.b, i>>} ELSE {}),
                       ![p].wr = c.wr \cup {<<c.ret, i>>}]
      /\ UNCHANGED <<kern, orig, scalar, gen>>

\* return retVal, once the range is exhausted.
Return(p) ==
  /\ call[p].pc = "loop"
  /\ call[p].i = RangeLen(heap, call[p])
  /\ call' = [call EXCEPT ![p].pc = "done"]
  /\ UNCHANGED <<kern, heap, orig, scalar, gen>>

\* The caller keeps the result and calls the same kernel on the same
\* arguments once more.
CallAgain(p) ==
  /\ call[p].pc = "done"
  /\ call[p].first = NoBlock
  /\ Enter(p, call[p].a, call[p].b, call[p].ret)

\* The caller drops its results; their blocks are free again.
Release(p) ==
  /\ call[p].pc = "done"
  /\ heap' = [x \in DOMAIN heap \ {call[p].ret, call[p].first} |-> heap[x]]
  /\ call' = [call EXCEPT ![p] = Idle]
  /\ UNCHANGED <<kern, orig, scalar, gen>>

\* All slices of element type t of at most n elements.
Slices(t, n) == UNION {[1..l -> Values(t)] : l \in 0..n}

Callers == 1..NumCallers

\* A single caller; the kernel and its inputs are arbitrary.
Init ==
  /\ kern \in Kernels
  /\ orig \in (IF kern.bslice
               THEN [{BlockA, BlockB} -> Slices(kern.elem, MaxLen)]
               ELSE [{BlockA} -> Slices(kern.elem, MaxLen)])
  /\ scalar \in (IF kern.bslice THEN {Zero(kern.elem)} ELSE Values(kern.elem))
  /\ heap = orig
  /\ call = [p \in {1} |-> Idle]
  /\ gen = GenOff

Next == Call(1) \/ Iterate(1) \/ Return(1) \/ CallAgain(1) \/ Release(1)

Spec == Init /\ [][Next]_vars

\* Two distinct values of type t.
Differ(t, x, y) == IF Ordered(t) THEN GoLt(t, x, y) ELSE ~GoEq(t, x, y)
Lo(t) == CHOOSE x \in Values(t) : \E y \in Values(t) : Differ(t, x, y)
Hi(t) == CHOOSE y \in Values(t) : Differ(t, Lo(t), y)

\* Several goroutines call the kernel at once, each on any of two input
\* slices of two elements (so on the same slice as another caller, or on
\* the other one).
InitConc ==
  /\ kern \in Kernels
  /\ orig = (BlockA :> <<Lo(kern.elem), Hi(kern.elem)>>)
             @@ (BlockB :> <<Hi(kern.elem), Lo(kern.elem)>>)
  /\ scalar = Hi(kern.elem)
  /\ heap = orig
  /\ call = [p \in Callers |-> Idle]
  /\ gen = GenOff

NextConc == \E p \in Callers : Call(p) \/ Iterate(p) \/ Return(p) \/ Release(p)

SpecConc == InitConc /\ [][NextConc]_vars

----------------------------------------------------------------------------
(* cmd/genapi: the extraction of an operator catalog from the parsed       *)
(* declarations of a source file.                                          *)
(*                                                                         *)
(* A declaration is [node |-> "FuncDecl"] or a GenDecl                     *)
(* [node |-> "GenDecl", tok |-> "const" | "var" | "type" | "import",       *)
(* specs |-> ...]; a ValueSpec is [names |-> <<identifiers>>, type |-> T]  *)
(* where T is [node |-> "nil"] (no explicit type), an identifier           *)
(* [node |-> "Ident", name |-> ...], or another type expression.           *)

\* longest list of declarations of a parsed source
MaxDecls == 2
\* most ValueSpecs in the constant groups of a parsed source, taken together
MaxSpecs == 3

\* generateUnary's and generateBinary's arguments to constTypes (lines 96, 117).
Families ==
  { [fam |-> "unary", accept |-> "ʘUnaryOperatorType", max |-> "maxʘUnaryOperator"],
    [fam |-> "binary", accept |-> "ʘBinaryOperatorType", max |-> "maxʘBinaryOpType"] }

\* A faulty inner loop: the sentinel is taken to be the last member, and
\* the last member is dropped whatever it is.
RECURSIVE SpecNamesDropLast(_, _, _)
SpecNamesDropLast(specs, max, acc) ==
  IF Len(specs) <= 1 THEN acc
  ELSE SpecNamesDropLast(Tail(specs), max, Append(acc, Head(specs).names[1]))

\* The inner loop of constTypes (lines 165-171): the first name of every
\* spec but those named max, appended to names.
RECURSIVE SpecNames(_, _, _)
SpecNames(specs, max, acc) ==
  IF specs = <<>> THEN acc
  ELSE LET name == Head(specs).names[1]
       IN  SpecNames(Tail(specs), max,
                     IF name = max THEN acc ELSE Append(acc, name))

\* A faulty test: a constant group is taken when any of its members has
\* the accepted type.
AcceptedAnyMember(d, accept) ==
  /\ d.node = "GenDecl"
  /\ d.tok = "const"
  /\ \E j \in 1..Len(d.specs) :
       d.specs[j].type.node = "Ident" /\ d.specs[j].type.name = accept

\* Lines 145-163: whether the declaration d is a constant group whose
\* members the loop collects.
Accepted(d, accept) ==
  /\ d.node = "GenDecl"
  /\ d.tok = "const"
  /\ Len(d.specs) # 0
  /\ LET typ == d.specs[1].type
         typename == IF typ.node = "Ident" THEN typ.name ELSE ""
     IN  typ.node # "nil" /\ typename = accept

\* constTypes (lines 140-177): the outer loop over the declarations.
RECURSIVE constTypesFrom(_, _, _, _)
constTypesFrom(ds, accept, max, acc) ==
  IF ds = <<>> THEN acc
  ELSE constTypesFrom(Tail(ds), accept, max,
         IF Accepted(Head(ds), accept)
         THEN SpecNames(Head(ds).specs, max, acc)
         ELSE acc)
constTypes(ds, accept, max) == constTypesFrom(ds, accept, max, <<>>)

\* The identifiers of the sources the model draws: two operators, the
\* family's sentinel.
Idents(f) == {"addOpType", "subOpType", f.max}
\* The type expressions: none, the accepted type, another identifier, a
\* qualified identifier.
NoType == [node |-> "nil", name |-> ""]
TypeExprs(f) ==
  { NoType, [node |-> "Ident", name |-> f.accept],
    [node |-> "Ident", name |-> "int"], [node |-> "SelectorExpr", name |-> f.accept] }
\* The ValueSpecs.  With one name: any type expression on the first spec of
\* a group; none, the accepted type or another identifier on the later
\* ones.  With two names: of the accepted type on the first spec, untyped
\* on the later ones.
AcceptType(f) == [node |-> "Ident", name |-> f.accept]
ValueSpecs(f, isFirst) ==
  [names : {<<x>> : x \in Idents(f)},
   type : IF isFirst THEN TypeExprs(f)
          ELSE {NoType, AcceptType(f), [node |-> "Ident", name |-> "int"]}]
  \cup {[names |-> <<"addOpType", "subOpType">>,
         type |-> IF isFirst THEN AcceptType(f) ELSE NoType]}
\* The declarations that are no constant group: a func, a var.
OtherDecls(f) ==
  { [node |-> "FuncDecl", tok |-> "func", specs |-> <<>>],
    [node |-> "GenDecl", tok |-> "var",
     specs |-> <<[names |-> <<"addOpType">>, type |-> [node |-> "Ident", name |-> f.accept]]>>] }
EmptyGroup == [node |-> "GenDecl", tok |-> "const", specs |-> <<>>]

\* Number of specs in the constant groups of ds.
RECURSIVE ConstSpecCount(_)
ConstSpecCount(ds) ==
  IF ds = <<>> THEN 0
  ELSE (IF Head(ds).tok = "const" THEN Len(Head(ds).specs) ELSE 0) + ConstSpecCount(Tail(ds))

\* genapi starts on the source of one family.
InitExtract ==
  /\ \E f \in Families : gen = [pc |-> "parsing", fam |-> f, decls |-> <<>>, names |-> <<>>]
  /\ kern = CHOOSE k \in Kernels : TRUE
  /\ heap = <<>>
  /\ orig = <<>>
  /\ scalar = 0
  /\ call = <<>>

\* parser.ParseFile (lines 91, 112) builds file.Decls: the next top-level
\* declaration, or the next spec of the constant group being read.
ParseDecl ==
  /\ gen.pc = "parsing"
  /\ Len(gen.decls) < MaxDecls
  /\ \E d \in OtherDecls(gen.fam) \cup {EmptyGroup} :
       gen' = [gen EXCEPT !.decls = Append(gen.decls, d)]
  /\ UNCHANGED <<kern, heap, orig, scalar, call>>

ParseSpec ==
  LET n == Len(gen.decls)
  IN  /\ gen.pc = "parsing"
      /\ n > 0
      /\ gen.decls[n].tok = "const"
      /\ ConstSpecCount(gen.decls) < MaxSpecs
      /\ \E s \in ValueSpecs(gen.fam, gen.decls[n].specs = <<>>) :
           gen' = [gen EXCEPT !.decls[n].specs = Append(gen.decls[n].specs, s)]
      /\ UNCHANGED <<kern, heap, orig, scalar, call>>

\* The source parsed without error.
ParseDone ==
  /\ gen.pc = "parsing"
  /\ gen' = [gen EXCEPT !.pc = "parsed"]
  /\ UNCHANGED <<kern, heap, orig, scalar, call>>

\* names := constTypes(file.Decls, accept, max)  (lines 96, 117)
Extract ==
  /\ gen.pc = "parsed"
  /\ gen' = [gen EXCEPT !.pc = "extracted",
                        !.names = constTypes(gen.decls, gen.fam.accept, gen.fam.max)]
  /\ UNCHANGED <<kern, heap, orig, scalar, call>>

NextExtract == ParseDecl \/ ParseSpec \/ ParseDone \/ Extract

SpecExtract == InitExtract /\ [][NextExtract]_vars

----------------------------------------------------------------------------
(* cmd/genapi: from an operator's internal name to its rendered block.     *)
(*                                                                         *)
(* Names and rendered text are strings; the string functions of the Go     *)
(* library are computed character by character.                            *)

\* const genmsg (line 17)
genmsg == "// Code generated by genapi, which is a API generation tool for Gorgonia. DO NOT EDIT."

\* strings.HasSuffix, strings.TrimSuffix: the suffix is cut once, if there.
HasSuffix(s, suffix) ==
  /\ Len(s) >= Len(suffix)
  /\ SubSeq(s, Len(s) - Len(suffix) + 1, Len(s)) = suffix
\* A faulty trim: the suffix is cut as often as it is there.
RECURSIVE TrimSuffixAll(_, _)
TrimSuffixAll(s, suffix) ==
  IF HasSuffix(s, suffix) THEN TrimSuffixAll(SubSeq(s, 1, Len(s) - Len(suffix)), suffix) ELSE s
TrimSuffix(s, suffix) ==
  IF HasSuffix(s, suffix) THEN SubSeq(s, 1, Len(s) - Len(suffix)) ELSE s

\* Whether the text holds the string sub.
Contains(text, sub) ==
  \E i \in 1..(Len(text) - Len(sub) + 1) : SubSeq(text, i, i + Len(sub) - 1) = sub
\* Whether the text starts with the string pre.
HasPrefix(text, pre) == Len(pre) <= Len(text) /\ SubSeq(text, 1, Len(pre)) = pre
\* The first place from i on where the string sub is in the text, 0 when
\* there is none.
Find(text, sub, i) ==
  LET at == {j \in i..(Len(text) - Len(sub) + 1) : SubSeq(text, j, j + Len(sub) - 1) = sub}
  IN  IF at = {} THEN 0 ELSE CHOOSE j \in at : \A k \in at : j <= k

\* The letters with a case (the identifiers of the model are ASCII but for
\* the letter U+0298 of the sentinels and type names, which has no case).
LowerCase == "abcdefghijklmnopqrstuvwxyz"
UpperCase == "ABCDEFGHIJKLMNOPQRSTUVWXYZ"
\* The place of the character c in an alphabet, 0 when it is not in it.
IndexIn(c, alphabet) ==
  LET at == {i \in 1..Len(alphabet) : SubSeq(alphabet, i, i) = c}
  IN  IF at = {} THEN 0 ELSE CHOOSE i \in at : TRUE
\* unicode.ToTitle, unicode.ToLower of one character
ToTitle(c) ==
  LET i == IndexIn(c, LowerCase) IN IF i = 0 THEN c ELSE SubSeq(UpperCase, i, i)
ToLowerRune(c) ==
  LET i == IndexIn(c, UpperCase) IN IF i = 0 THEN c ELSE SubSeq(LowerCase, i, i)

\* strings.Title (lines 98, 120) on an identifier.  Title maps to title
\* case every letter that follows a separator, the start of the string
\* included; letters, digits and the underscore are no separators, so of an
\* identifier only the first character is mapped.
Title(s) == IF s = "" THEN "" ELSE ToTitle(Head(s)) \o Tail(s)

\* funcmap's "lower" (lines 29-31): strings.ToLower
RECURSIVE lower(_)
lower(s) == IF s = "" THEN "" ELSE ToLowerRune(Head(s)) \o lower(Tail(s))

\* A faulty normalizer: the overrides of both families applied together.
apiNameBoth(v) ==
  LET apiName == Title(TrimSuffix(v, "OpType"))
  IN  CASE apiName = "Ln" -> "Log"
        [] apiName = "Mul" -> "HadamardProd"
        [] apiName = "Div" -> "HadamardDiv"
        [] OTHER -> apiName

\* generateUnary, lines 98-102: apiName of the operator v
unaryApiName(v) ==
  LET apiName == Title(TrimSuffix(v, "OpType"))
  IN  IF apiName = "Ln" THEN "Log" ELSE apiName

\* generateBinary, lines 120-127: apiName of the operator v
binaryApiName(v) ==
  LET apiName == Title(TrimSuffix(v, "OpType"))
  IN  CASE apiName = "Mul" -> "HadamardProd"
        [] apiName = "Div" -> "HadamardDiv"
        [] OTHER -> apiName

\* A faulty flag: the ordering operators only.
AsSameOrdering(apiName) == apiName \in {"Lt", "Gt", "Lte", "Gte"}
\* generateBinary, lines 132-135: the switch that sets data.AsSame
AsSame(apiName) == apiName \in {"Lt", "Gt", "Lte", "Gte", "Eq", "Ne"}

\* data of generateUnary (line 103) and of generateBinary (lines 128-135)
unaryData(v) == [FnName |-> unaryApiName(v), OpType |-> v]
binaryData(v) ==
  [FnName |-> binaryApiName(v), OpType |-> v, AsSame |-> AsSame(binaryApiName(v))]

\* unaryTemplate.Execute (template of lines 38-40): the text rendered for data
unaryTemplate(data) ==
  " // " \o data.FnName \o " performs a pointwise " \o lower(data.FnName) \o ".\n"
  \o "func " \o data.FnName
  \o "(a *Node) (*Node, error) { return unaryOpNode(newElemUnaryOp("
  \o data.OpType \o ", a), a) }\n"

\* binaryTemplate.Execute (template of lines 42-63).  "-}}" trims the white
\* space that follows the action: the line break after each {{end -}} and
\* the line break and tab after {{else -}} are not rendered.
binaryTemplate(data) ==
  "// " \o data.FnName \o " perfors a pointwise " \o lower(data.FnName) \o " operation.\n"
  \o (IF data.AsSame
      THEN "//\tretSame indicates if the data type of the return value should be the same as the input data type. It defaults to Bool otherwise.\n"
      ELSE "")
  \o "func " \o data.FnName \o "(a, b *Node"
  \o (IF data.AsSame THEN ", retSame bool" ELSE "")
  \o ") (*Node, error) { "
  \o (IF ~data.AsSame
      THEN "return binOpNode(newElemBinOp(" \o data.OpType \o ", a, b), a, b) "
      ELSE "op := newElemBinOp(" \o data.OpType \o ", a, b)\n"
           \o "\top.retSame = retSame\n"
           \o "\treturn binOpNode(op, a, b)\n")
  \o "}\n"
  \o "\n"
  \o "// " \o data.FnName \o "Op ...\n"
  \o "func New" \o data.FnName \o "Operation() Operation {\n"
  \o "\treturn func(g graph.WeightedDirected, n node.Node) (ops.Op, error) {\n"
  \o "\t\tit := getOrderedChildren(g, n)\n"
  \o "\t\tchildren := make([]*Node, it.Len())\n"
  \o "\t\tfor i := 0; it.Next(); i++ {\n"
  \o "\t\t\tchildren[i] = it.Node().(*Node)\n"
  \o "\t\t}\n"
  \o "\t\treturn newElemBinOp(" \o data.OpType \o ", children[0], children[1]), nil\n"
  \o "\t}\n"
  \o "}\n"

\* The internal names the normalizer is run on: a stem, then nothing, the
\* suffix, the suffix twice, or a near miss of the suffix; and the two
\* sentinels, each an ordinary name in the other family.
Stems ==
  { "ln", "log", "mul", "div", "lt", "gt", "lte", "gte", "eq", "ne", "add", "abs",
    "Ln", "Mul", "lT", "hadamardProd", "l", "_ln", "" }
SuffixForms == {"", "OpType", "OpTypeOpType", "Optype", "OpTypes"}
InternalNames ==
  ({stem \o form : stem \in Stems, form \in SuffixForms} \ {""})
  \cup {f.max : f \in Families}

\* One operator of one family, before the loop body of its generator.
InitNormalize ==
  /\ \E f \in Families, v \in InternalNames : gen = [pc |-> "name", fam |-> f, v |-> v]
  /\ kern = CHOOSE k \in Kernels : TRUE
  /\ heap = <<>>
  /\ orig = <<>>
  /\ scalar = 0
  /\ call = <<>>

\* generateUnary, lines 98-103: the descriptor of the operator
DescribeUnary ==
  /\ gen.pc = "name"
  /\ gen.fam.fam = "unary"
  /\ gen' = [pc |-> "data", fam |-> gen.fam, v |-> gen.v, data |-> unaryData(gen.v)]
  /\ UNCHANGED <<kern, heap, orig, scalar, call>>

\* generateBinary, lines 120-135
DescribeBinary ==
  /\ gen.pc = "name"
  /\ gen.fam.fam = "binary"
  /\ gen' = [pc |-> "data", fam |-> gen.fam, v |-> gen.v, data |-> binaryData(gen.v)]
  /\ UNCHANGED <<kern, heap, orig, scalar, call>>

\* line 104: unaryTemplate.Execute(outFile, data), the write succeeding
ExecuteUnary ==
  /\ gen.pc = "data"
  /\ gen.fam.fam = "unary"
  /\ gen' = [pc |-> "rendered", fam |-> gen.fam, v |-> gen.v, data |-> gen.data,
             text |-> unaryTemplate(gen.data)]
  /\ UNCHANGED <<kern, heap, orig, scalar, call>>

\* line 136: binaryTemplate.Execute(outFile, data), the write succeeding
ExecuteBinary ==
  /\ gen.pc = "data"
  /\ gen.fam.fam = "binary"
  /\ gen' = [pc |-> "rendered", fam |-> gen.fam, v |-> gen.v, data |-> gen.data,
             text |-> binaryTemplate(gen.data)]
  /\ UNCHANGED <<kern, heap, orig, scalar, call>>

NextNormalize == DescribeUnary \/ DescribeBinary \/ ExecuteUnary \/ ExecuteBinary

SpecNormalize == InitNormalize /\ [][NextNormalize]_vars

----------------------------------------------------------------------------
(* cmd/genapi: a run of the generator (func main), and the next run on the *)
(* same sources.                                                           *)
(*                                                                         *)
(* The output file is the sequence of the chunks written to it, one chunk  *)
(* per write: its content is the chunks one after the other (Bytes).  A    *)
(* source is [err |-> whether parser.ParseFile returns an error,           *)
(* decls |-> the declarations of the file it returns].                     *)

\* most specs in the declarations of the two sources of a run, taken together
MaxOps == 3
\* most writes to the output file that fail, over the runs
MaxFaults == 1
\* most runs of the generator, one after the other
MaxRuns == 2

Unary == CHOOSE f \in Families : f.fam = "unary"
Binary == CHOOSE f \in Families : f.fam = "binary"

\* main's format string (lines 186-196) in its three parts, and the text
\* fmt.Fprintf makes of it: %v is genmsg.
PackageClause == "package gorgonia \n\n"
ImportDecl ==
  "import (\n\t\"gonum.org/v1/gonum/graph\"\n\t\"gorgonia.org/gorgonia/node\"\n\t\"gorgonia.org/gorgonia/ops\"\n)\n\n"
Header == PackageClause \o ImportDecl \o genmsg \o "\n\n"

\* The operators of the sources a run reads: in the unary source two that
\* normalize to the same name; in the binary source one with the result flag
\* and one with an override.
Operators(f) ==
  IF f.fam = "unary" THEN {"lnOpType", "logOpType"} ELSE {"ltOpType", "mulOpType"}
\* The lists of at most n members of a constant group of the family: its
\* operators and its sentinel, in any order.
Catalogs(f, n) == UNION {[1..l -> Operators(f) \cup {f.max}] : l \in 0..n}
\* The constant group of the members ns: the first spec carries the type,
\* the later ones repeat it implicitly.
Group(f, ns) ==
  [node |-> "GenDecl", tok |-> "const",
   specs |-> [j \in 1..Len(ns) |->
                [names |-> <<ns[j]>>, type |-> IF j = 1 THEN AcceptType(f) ELSE NoType]]]
\* A declaration from which nothing is extracted though it declares an
\* operator: a constant group of another type, a var of the accepted type.
Unmatched(f) ==
  { [node |-> "GenDecl", tok |-> "const",
     specs |-> <<[names |-> <<"addOpType">>, type |-> [node |-> "Ident", name |-> "int"]]>>],
    [node |-> "GenDecl", tok |-> "var",
     specs |-> <<[names |-> <<"addOpType">>, type |-> AcceptType(f)]>>] }
\* The declarations of a source of the family with at most n specs: one
\* constant group of the accepted type, or one declaration of the others.
Sources(f, n) ==
  {<<Group(f, ns)>> : ns \in Catalogs(f, n)}
  \cup (IF n >= 1 THEN {<<d>> : d \in Unmatched(f)} ELSE {})
\* What the output file holds before the first run: nothing (or no file), or
\* the file an earlier release of the generator left.
Stale ==
  Header \o unaryTemplate(unaryData("sqrtOpType"))
  \o binaryTemplate(binaryData("powOpType")) \o binaryTemplate(binaryData("gteOpType"))

\* The start of main.
InitGen ==
  /\ \E du \in Sources(Unary, MaxOps), eu \in BOOLEAN, prev \in {<<>>, <<Stale>>} :
       \E db \in Sources(Binary, MaxOps - Len(du[1].specs)), eb \in BOOLEAN :
         gen = [pc |-> "main",
                src |-> [unary |-> [err |-> eu, decls |-> du],
                         binary |-> [err |-> eb, decls |-> db]],
                file |-> prev, names |-> <<>>, i |-> 1,
                exit |-> 0, fatal |-> "", errs |-> <<>>, faults |-> 0,
                run |-> 1, last |-> <<>>]
  /\ kern = CHOOSE k \in Kernels : TRUE
  /\ heap = <<>>
  /\ orig = <<>>
  /\ scalar = 0
  /\ call = <<>>

\* log.Fatal(err) (lines 183, 93, 114): the error is logged and the process
\* exits with status 1.
Fatal(g, err) == [g EXCEPT !.pc = "exited", !.exit = 1, !.fatal = err]

\* A faulty check of ParseFile's result: the error is not looked at.
ParseErrorUnchecked(s) == FALSE
\* err != nil after parser.ParseFile (lines 92, 113)
ParseError(s) == s.err

\* How much of a text a failed write leaves in the file: nothing, or a part.
Cuts(text) == {0, Len(text) \div 2}

\* A write of text to outFile (inside fmt.Fprintf, line 186, or Execute,
\* lines 104 and 136): the text is appended; or the write fails, leaves a
\* part of the text in the file and returns an error.  errs are the errors
\* the calls of this run have returned (the code drops them): which call,
\* and for an Execute the place i in the catalog and the operator v.
Write(g, text, at, v) ==
  {[file |-> Append(g.file, text), errs |-> g.errs, faults |-> g.faults]}
  \cup IF g.faults < MaxFaults
       THEN {[file |-> IF k = 0 THEN g.file ELSE Append(g.file, SubSeq(text, 1, k)),
              errs |-> Append(g.errs, [at |-> at, i |-> IF at = "header" THEN 0 ELSE g.i,
                                       v |-> v]),
              faults |-> g.faults + 1] : k \in Cuts(text)}
       ELSE {}

\* A faulty open, without O_TRUNC: what the file held stays in it.
OpenFileKeep ==
  /\ gen.pc = "main"
  /\ \E ok \in BOOLEAN :
       gen' = IF ok THEN [gen EXCEPT !.pc = "header"] ELSE Fatal(gen, "OpenFile")
  /\ UNCHANGED <<kern, heap, orig, scalar, call>>

\* lines 180-184: os.OpenFile with O_CREATE|O_TRUNC|O_WRONLY.  Opened, the
\* file is empty; not opened, the run ends in log.Fatal.
OpenFile ==
  /\ gen.pc = "main"
  /\ \E ok \in BOOLEAN :
       gen' = IF ok THEN [gen EXCEPT !.pc = "header", !.file = <<>>]
              ELSE Fatal(gen, "OpenFile")
  /\ UNCHANGED <<kern, heap, orig, scalar, call>>

\* lines 186-196: fmt.Fprintf(outFile, ...); its results are not looked at.
WriteHeader ==
  /\ gen.pc = "header"
  /\ \E w \in Write(gen, Header, "header", "") :
       gen' = [gen EXCEPT !.pc = "generateUnary",
                          !.file = w.file, !.errs = w.errs, !.faults = w.faults]
  /\ UNCHANGED <<kern, heap, orig, scalar, call>>

\* A faulty generateUnary: an empty catalog ends the run like a parse error.
ParseUnaryStrict ==
  /\ gen.pc = "generateUnary"
  /\ LET names == constTypes(gen.src.unary.decls, Unary.accept, Unary.max)
     IN  gen' = IF ParseError(gen.src.unary) \/ names = <<>>
                THEN Fatal(gen, "ParseFile unary")
                ELSE [gen EXCEPT !.pc = "unaryLoop", !.i = 1, !.names = names]
  /\ UNCHANGED <<kern, heap, orig, scalar, call>>

\* generateUnary, lines 89-96: the unary source is parsed, and its catalog
\* extracted, or the run ends in log.Fatal.
ParseUnary ==
  /\ gen.pc = "generateUnary"
  /\ gen' = IF ParseError(gen.src.unary) THEN Fatal(gen, "ParseFile unary")
            ELSE [gen EXCEPT !.pc = "unaryLoop", !.i = 1,
                             !.names = constTypes(gen.src.unary.decls, Unary.accept, Unary.max)]
  /\ UNCHANGED <<kern, heap, orig, scalar, call>>

\* generateUnary, lines 97-105: one iteration of the loop.  Execute's result
\* is not looked at.
RenderUnary ==
  /\ gen.pc = "unaryLoop"
  /\ gen.i <= Len(gen.names)
  /\ LET v == gen.names[gen.i]
         data == unaryData(v)
     IN  \E w \in Write(gen, unaryTemplate(data), "unary", v) :
           gen' = [gen EXCEPT !.i = gen.i + 1,
                              !.file = w.file, !.errs = w.errs, !.faults = w.faults]
  /\ UNCHANGED <<kern, heap, orig, scalar, call>>

\* generateUnary returns (line 107); main goes on to generateBinary (line 199).
ReturnUnary ==
  /\ gen.pc = "unaryLoop"
  /\ gen.i > Len(gen.names)
  /\ gen' = [gen EXCEPT !.pc = "generateBinary"]
  /\ UNCHANGED <<kern, heap, orig, scalar, call>>

\* generateBinary, lines 110-118
ParseBinary ==
  /\ gen.pc = "generateBinary"
  /\ gen' = IF ParseError(gen.src.binary) THEN Fatal(gen, "ParseFile binary")
            ELSE [gen EXCEPT !.pc = "binaryLoop", !.i = 1,
                             !.names = constTypes(gen.src.binary.decls, Binary.accept, Binary.max)]
  /\ UNCHANGED <<kern, heap, orig, scalar, call>>

\* A faulty loop: data is declared before the loop and its AsSame, once
\* set, is not reset in the iterations that follow.
RenderBinarySticky ==
  /\ gen.pc = "binaryLoop"
  /\ gen.i <= Len(gen.names)
  /\ LET v == gen.names[gen.i]
         set == \E j \in 1..(gen.i - 1) : AsSame(binaryApiName(gen.names[j]))
         data == [binaryData(v) EXCEPT !.AsSame = @ \/ set]
     IN  \E w \in Write(gen, binaryTemplate(data), "binary", v) :
           gen' = [gen EXCEPT !.i = gen.i + 1,
                              !.file = w.file, !.errs = w.errs, !.faults = w.faults]
  /\ UNCHANGED <<kern, heap, orig, scalar, call>>

\* generateBinary, lines 119-137: one iteration of the loop
RenderBinary ==
  /\ gen.pc = "binaryLoop"
  /\ gen.i <= Len(gen.names)
  /\ LET v == gen.names[gen.i]
         data == binaryData(v)
     IN  \E w \in Write(gen, binaryTemplate(data), "binary", v) :
           gen' = [gen EXCEPT !.i = gen.i + 1,
                              !.file = w.file, !.errs = w.errs, !.faults = w.faults]
  /\ UNCHANGED <<kern, heap, orig, scalar, call>>

\* generateBinary returns (line 138) and main returns (line 200): the
\* process exits with status 0.
ReturnMain ==
  /\ gen.pc = "binaryLoop"
  /\ gen.i > Len(gen.names)
  /\ gen' = [gen EXCEPT !.pc = "exited", !.exit = 0]
  /\ UNCHANGED <<kern, heap, orig, scalar, call>>

\* The generator is run again: the sources are as they were, the output
\* file is as the run before left it.  last keeps what that run ended with
\* (it is empty in the first run).
Rerun ==
  /\ gen.pc = "exited"
  /\ gen.run < MaxRuns
  /\ gen' = [gen EXCEPT !.pc = "main", !.names = <<>>, !.i = 1,
                        !.exit = 0, !.fatal = "", !.errs = <<>>,
                        !.run = gen.run + 1,
                        !.last = <<[exit |-> gen.exit, file |-> gen.file,
                                    errs |-> gen.errs]>>]
  /\ UNCHANGED <<kern, heap, orig, scalar, call>>

NextGen ==
  \/ OpenFile \/ WriteHeader
  \/ ParseUnary \/ RenderUnary \/ ReturnUnary
  \/ ParseBinary \/ RenderBinary \/ ReturnMain
  \/ Rerun

SpecGen == InitGen /\ [][NextGen]_vars

----------------------------------------------------------------------------
(* cmd/genapi: the factory of a rendered block (template lines 52-63), and *)
(* a call of the closure it returns.                                       *)
(*                                                                         *)
(* What the generated code does is read off the rendered text: the name of *)
(* the factory, the opcode it passes to newElemBinOp.  The children of the *)
(* graph node are the list getOrderedChildren's iterator yields; an        *)
(* operation is the term newElemBinOp(op, a, b) of its three arguments.    *)

\* most children of the graph node a closure is called on
MaxChildren == 3

\* The text between the first occurrence of the string from, at or after
\* place i, and the next occurrence of the string to; "" when either is not
\* there.
Between(text, from, to, i) ==
  LET p == Find(text, from, i)
      q == IF p = 0 THEN 0 ELSE Find(text, to, p + Len(from))
  IN  IF q = 0 THEN "" ELSE SubSeq(text, p + Len(from), q - 1)

\* Line 53: where the declaration of the factory starts in a block, 0 when
\* the block declares none.
FactoryAt(text) ==
  LET p == Find(text, "func New", 1)
  IN  IF p # 0 /\ Find(text, "Operation() Operation {\n", p) # 0 THEN p ELSE 0
\* Line 53: the name of the factory, func <name>() Operation.
FactoryName(text) ==
  IF FactoryAt(text) = 0 THEN ""
  ELSE Between(text, "func ", "() Operation {\n", FactoryAt(text))
\* Line 60: the opcode in the closure's return statement.
FactoryOpcode(text) ==
  IF FactoryAt(text) = 0 THEN ""
  ELSE Between(text, "\t\treturn newElemBinOp(", ", children[0], children[1]), nil\n",
               FactoryAt(text))
\* Lines 45-48: the opcode the public function passes to newElemBinOp.
PublicOpcode(text) == Between(text, "newElemBinOp(", ", a, b)", 1)

\* The children of a graph node: tensor nodes, or a node of another type.
Children == {"n1", "n2", "n3", "foreign"}
IsNode(c) == c # "foreign"
ChildLists == UNION {[1..l -> Children] : l \in 0..MaxChildren}

\* A faulty closure: it yields an operation for exactly two children only.
ClosureExactlyTwo(op, cs) ==
  IF \E i \in 1..Len(cs) : ~IsNode(cs[i])
  THEN [panic |-> "interface conversion", op |-> <<>>, err |-> "nil"]
  ELSE IF Len(cs) # 2
  THEN [panic |-> "index out of range", op |-> <<>>, err |-> "nil"]
  ELSE [panic |-> "", op |-> <<"newElemBinOp", op, cs[1], cs[2]>>, err |-> "nil"]

\* Lines 54-61: the closure, called on a node whose ordered children are cs.
\* Every child is converted to *Node (line 58), then children[0] and
\* children[1] are read (line 60).
Closure(op, cs) ==
  IF \E i \in 1..Len(cs) : ~IsNode(cs[i])
  THEN [panic |-> "interface conversion", op |-> <<>>, err |-> "nil"]
  ELSE IF Len(cs) < 2
  THEN [panic |-> "index out of range", op |-> <<>>, err |-> "nil"]
  ELSE [panic |-> "", op |-> <<"newElemBinOp", op, cs[1], cs[2]>>, err |-> "nil"]

\* The factory of the rendered block is called (line 53): it returns the
\* closure.
CallFactory ==
  /\ gen.pc = "rendered"
  /\ FactoryAt(gen.text) # 0
  /\ gen' = [pc |-> "closure", fam |-> gen.fam, v |-> gen.v, data |-> gen.data,
             text |-> gen.text, op |-> FactoryOpcode(gen.text)]
  /\ UNCHANGED <<kern, heap, orig, scalar, call>>

\* The closure is called on a node of a graph (lines 54-61).
CallClosure ==
  /\ gen.pc = "closure"
  /\ \E cs \in ChildLists :
       gen' = [pc |-> "called", fam |-> gen.fam, v |-> gen.v, data |-> gen.data,
               text |-> gen.text, op |-> gen.op, children |-> cs,
               out |-> Closure(gen.op, cs)]
  /\ UNCHANGED <<kern, heap, orig, scalar, call>>

NextAdapter == NextNormalize \/ CallFactory \/ CallClosure

SpecAdapter == InitNormalize /\ [][NextAdapter]_vars

----------------------------------------------------------------------------
(* Properties of the kernels.                                              *)

\* The invocation of caller p: its inputs as they were passed, its result.
ArgA(p) == orig[call[p].a]
ArgB(p) == IF kern.bslice THEN orig[call[p].b] ELSE scalar
Result(p) == heap[call[p].ret]
Returned(p) == call[p].pc = "done"

\* The operator a kernel's name stands for: Eq is ==, Gt is >, Gte is >=,
\* Lt is <, Lte is <=.
OpOf(op) ==
  CASE op = "eq" -> "==" [] op = "gt" -> ">" [] op = "gte" -> ">="
    [] op = "lt" -> "<" [] op = "lte" -> "<="
\* op(x, y) for the operator in the name of the kernel being called.
Holds(x, y) == GoCmp(OpOf(kern.op), kern.elem, x, y)

\* The element type a kernel's type suffix stands for.
TypeOfSuffix(knd) ==
  CASE knd = "B" -> "bool" [] knd = "I" -> "int" [] knd = "I8" -> "int8"
    [] knd = "I16" -> "int16" [] knd = "I32" -> "int32" [] knd = "I64" -> "int64"
    [] knd = "U" -> "uint" [] knd = "U8" -> "uint8" [] knd = "U16" -> "uint16"
    [] knd = "U32" -> "uint32" [] knd = "U64" -> "uint64" [] knd = "Uintptr" -> "uintptr"
    [] knd = "F32" -> "float32" [] knd = "F64" -> "float64"
    [] knd = "C64" -> "complex64" [] knd = "C128" -> "complex128"
    [] knd = "Str" -> "string" [] knd = "UnsafePointer" -> "unsafe.Pointer"
    [] OTHER -> "?"

\* The kernel of the matrix with kern's operator and kind, of shape shp and
\* result kind res.
Companions(shp, res) ==
  {k \in Kernels : k.op = kern.op /\ k.knd = kern.knd /\ k.shp = shp /\ k.res = res}
Companion(shp, res) == CHOOSE k \in Companions(shp, res) : TRUE

\* C1: a boolean-mask array-array kernel <op>DDBools<K>, called on slices a
\* and b of K of equal length n, returns n booleans, the i-th being
\* op(a[i], b[i]) for the operator of its name.
C1_MaskIsOperator ==
  \A p \in DOMAIN call :
    (/\ Returned(p)
     /\ kern.shp = "DD" /\ kern.res = "Bools"
     /\ Len(ArgA(p)) = Len(ArgB(p)))
    => /\ kern.elem = TypeOfSuffix(kern.knd)
       /\ Len(Result(p)) = Len(ArgA(p))
       /\ \A i \in 1..Len(ArgA(p)) :
            /\ Result(p)[i] \in BOOLEAN
            /\ Result(p)[i] = Holds(ArgA(p)[i], ArgB(p)[i])

\* gteDDBoolsI([1, -1], [1, 1]) has returned [true, false].
C1_Witness ==
  /\ kern.name = "gteDDBoolsI"
  /\ Returned(1)
  /\ ArgA(1) = <<1, -1>> /\ ArgB(1) = <<1, 1>>
  /\ Result(1) = <<TRUE, FALSE>>

\* The scalar c as a slice of n elements.
Broadcast(c, n) == [j \in 1..n |-> c]

\* C2: an array-scalar kernel called on (a, c) returns what the array-array
\* kernel of the same operator, kind and result kind returns on
\* (a, broadcast(c, len(a))): len(a) elements, the i-th being op(a[i], c)
\* (as a boolean for a Bools kernel, as K's 1 or 0 for a Same kernel).
C2_ScalarIsBroadcast ==
  \A p \in DOMAIN call :
    (Returned(p) /\ kern.shp = "DS")
    => /\ Companions("DD", kern.res) # {}
       /\ [panic |-> FALSE, retVal |-> Result(p)]
            = Run(Companion("DD", kern.res), ArgA(p), Broadcast(ArgB(p), Len(ArgA(p))))
       /\ Len(Result(p)) = Len(ArgA(p))
       /\ \A i \in 1..Len(ArgA(p)) :
            Result(p)[i] = IF kern.res = "Bools"
                           THEN Holds(ArgA(p)[i], ArgB(p))
                           ELSE IF Holds(ArgA(p)[i], ArgB(p))
                                THEN Conv(kern.elem, 1) ELSE Conv(kern.elem, 0)

\* gtDSSameF64 has returned a slice of MaxLen elements holding both a 1 and a 0.
C2_Witness ==
  /\ kern.name = "gtDSSameF64"
  /\ Returned(1)
  /\ Len(ArgA(1)) = MaxLen
  /\ \E i \in 1..MaxLen : Result(1)[i] = F(1)
  /\ \E i \in 1..MaxLen : Result(1)[i] = F(0)

\* C3: a same-type-indicator kernel returns a slice of K as long as the
\* mask of the Bools kernel of the same operator, kind and shape on the same
\* inputs, with K's 1 exactly where the mask is true and K's 0 elsewhere.
C3_IndicatorIsMask ==
  \A p \in DOMAIN call :
    (Returned(p) /\ kern.res = "Same")
    => /\ kern.ret = kern.elem
       /\ Companions(kern.shp, "Bools") # {}
       /\ LET run == Run(Companion(kern.shp, "Bools"), ArgA(p), ArgB(p))
              mask == run.retVal
          IN  /\ ~run.panic
              /\ Len(Result(p)) = Len(mask)
              /\ \A i \in 1..Len(mask) :
                   /\ Result(p)[i] \in {Conv(kern.elem, 1), Conv(kern.elem, 0)}
                   /\ (Result(p)[i] = Conv(kern.elem, 1)) <=> mask[i]
                   /\ (Result(p)[i] = Conv(kern.elem, 0)) <=> ~mask[i]

\* eqDDSameC64 has returned 1+0i for one element and 0 for another.
C3_Witness ==
  /\ kern.name = "eqDDSameC64"
  /\ Returned(1)
  /\ \E i, j \in 1..Len(Result(1)) :
       Result(1)[i] = C(F(1), F(0)) /\ Result(1)[j] = C(F(0), F(0))

\* The kernel being called is an ordering variant: by its name, or by the
\* comparison in its body.
OrderingVariant == kern.op \in {"gt", "gte", "lt", "lte"} \/ kern.tok # "=="

\* C4 as stated: no ordering-variant kernel exists for a complex kind, the
\* boolean kind, or a pointer kind (uintptr and unsafe.Pointer).
C4_NoOrderingForPointerKinds ==
  OrderingVariant
  => kern.elem \notin ComplexTypes \cup {"bool", "uintptr", "unsafe.Pointer"}

\* C4, amended: no ordering-variant kernel exists for a complex kind, the
\* boolean kind or unsafe.Pointer, which have equality kernels only; uintptr
\* is ordered like the other unsigned integers, by boolean-mask kernels.
C4_NoOrderingForUnordered ==
  /\ OrderingVariant => kern.elem \notin ComplexTypes \cup {"bool", "unsafe.Pointer"}
  /\ kern.elem \in ComplexTypes \cup {"bool", "unsafe.Pointer"}
       => kern.op = "eq" /\ kern.tok = "=="
  /\ (OrderingVariant /\ kern.elem = "uintptr") => kern.res = "Bools" /\ kern.ret = "bool"

\* An equality kernel on unsafe.Pointer has returned; so has an ordering
\* kernel on uintptr in another run.
C4_Witness ==
  /\ Returned(1)
  /\ Len(Result(1)) > 0
  /\ \/ kern.name = "eqDDBoolsUnsafePointer"
     \/ kern.name = "gtDSBoolsUintptr"

\* The kernel being called is a same-type indicator: by its name, or by
\* its result not being a slice of bool.
SameVariant == kern.res = "Same" \/ kern.ret # "bool"

\* C5: no same-type-indicator kernel exists for the boolean kind, the
\* string kind or a pointer kind (uintptr, unsafe.Pointer): the kinds
\* without an additive identity have boolean-mask kernels only.
C5_NoIndicatorWithoutIdentity ==
  /\ SameVariant => kern.elem \notin {"bool", "string", "uintptr", "unsafe.Pointer"}
  /\ kern.elem \in {"bool", "string", "uintptr", "unsafe.Pointer"}
       => kern.res = "Bools" /\ kern.ret = "bool" /\ kern.body = <<"assign">>
  /\ SameVariant => kern.res = "Same" /\ kern.ret = kern.elem /\ kern.body[1] = "branch"

\* A kernel on strings has returned its mask.
C5_Witness ==
  /\ kern.elem = "string"
  /\ Returned(1)
  /\ Len(Result(1)) > 0

\* The type catalog: the data kinds of the library, and their capabilities.
Catalog ==
  {"bool", "string", "unsafe.Pointer"} \cup SignedTypes \cup UnsignedTypes
    \cup FloatTypes \cup ComplexTypes
Ops == {"eq", "gt", "gte", "lt", "lte"}
Capable(op, t) == op = "eq" \/ Ordered(t)
Has(op, t, shp, res) ==
  \E k \in Kernels : k.op = op /\ k.elem = t /\ k.shp = shp /\ k.res = res
\* No (operator, kind) pair has one shape of a result kind without the other.
ShapesPaired ==
  \A op \in Ops : \A t \in Catalog : \A res \in {"Bools", "Same"} :
    Has(op, t, "DD", res) <=> Has(op, t, "DS", res)
\* Every capable (operator, kind) pair has the boolean-mask kernels in both
\* shapes.
MasksComplete ==
  \A op \in Ops : \A t \in Catalog :
    Capable(op, t) => Has(op, t, "DD", "Bools") /\ Has(op, t, "DS", "Bools")
\* The kinds C6 gives an additive identity: every integer kind including
\* uintptr, both float kinds, both complex kinds.
IdentityKindsStated == SignedTypes \cup UnsignedTypes \cup FloatTypes \cup ComplexTypes
IndicatorsCompleteStated ==
  \A op \in Ops : \A t \in IdentityKindsStated :
    Capable(op, t) => Has(op, t, "DD", "Same") /\ Has(op, t, "DS", "Same")
\* The same without uintptr.
IndicatorsCompleteButUintptr ==
  \A op \in Ops : \A t \in IdentityKindsStated \ {"uintptr"} :
    Capable(op, t) => Has(op, t, "DD", "Same") /\ Has(op, t, "DS", "Same")

\* C6 as stated: the matrix has both shapes of the boolean-mask kernel for
\* every capable (operator, kind) pair and both shapes of the same-type
\* indicator for every integer kind including uintptr, both float kinds and
\* both complex kinds.
C6_CompleteWithUintptr ==
  /\ kern \in Kernels
  /\ MasksComplete
  /\ IndicatorsCompleteStated
  /\ ShapesPaired

\* C6, amended: the matrix has both shapes of the boolean-mask kernel for
\* every capable (operator, kind) pair, and both shapes of the same-type
\* indicator for every integer kind but uintptr, both float kinds and (for
\* Eq) both complex kinds; no pair has one shape without the other.
C6_CompleteButUintptr ==
  /\ kern \in Kernels
  /\ MasksComplete
  /\ IndicatorsCompleteButUintptr
  /\ ShapesPaired
  /\ kern.elem \in Catalog /\ kern.op \in Ops /\ Capable(kern.op, kern.elem)

\* The four kernels of (Lte, float64) are in the matrix and the array-scalar
\* indicator has returned.
C6_Witness ==
  /\ kern.name = "lteDSSameF64"
  /\ Returned(1)
  /\ \A shp \in {"DD", "DS"} : \A res \in {"Bools", "Same"} : Companions(shp, res) # {}

\* The locations (block, index) of block x.
Locations(x) == {<<x, j>> : j \in 1..Len(heap[x])}

\* C7: a kernel leaves its arguments as they were, writes no element of a
\* or b, returns a slice in a block of its own (neither a's nor b's, nor
\* that of a result returned before), and returns an equal result when it
\* is called again on the same inputs.
C7_Pure ==
  /\ \A x \in DOMAIN orig : x \in DOMAIN heap /\ heap[x] = orig[x]
  /\ \A p \in DOMAIN call :
       call[p].pc # "idle"
       => /\ call[p].ret \notin DOMAIN orig \cup {call[p].a, call[p].b, call[p].first}
          /\ call[p].wr \subseteq Locations(call[p].ret)
          /\ call[p].wr \cap UNION {Locations(x) : x \in DOMAIN orig} = {}
          /\ (Returned(p) /\ call[p].first # NoBlock)
               => heap[call[p].ret] = heap[call[p].first]

\* eqDDSameI has returned twice on the same two-element inputs, with a 1 in
\* the results.
C7_Witness ==
  /\ kern.name = "eqDDSameI"
  /\ Returned(1)
  /\ call[1].first # NoBlock
  /\ Len(ArgA(1)) = 2
  /\ \E i \in 1..2 : Result(1)[i] = 1
  /\ Result(1) = heap[call[1].first]

\* C9 as stated: an array-array kernel called with inputs of unequal
\* length faults instead of returning a result.
C9_MismatchNeverReturns ==
  \A p \in DOMAIN call :
    (kern.shp = "DD" /\ call[p].pc # "idle" /\ Len(ArgA(p)) # Len(ArgB(p)))
    => ~Returned(p)

\* C9, amended: an array-array kernel checks nothing before its loop and has
\* no error result; called with b shorter than a it panics on the index
\* len(b), after len(b) iterations, and never returns; called with b longer
\* than a (or as long) it does not panic.
C9_ShorterFaults ==
  \A p \in DOMAIN call :
    (kern.shp = "DD" /\ call[p].pc # "idle")
    => /\ kern.bslice /\ kern.rhs = "b[i]"
       /\ Len(ArgB(p)) < Len(ArgA(p)) => ~Returned(p) /\ call[p].i <= Len(ArgB(p))
       /\ call[p].pc = "panic" => Len(ArgB(p)) < Len(ArgA(p)) /\ call[p].i = Len(ArgB(p))
       /\ Returned(p) => Len(Result(p)) = Len(ArgA(p))

\* gtDDSameI has panicked on the second element of a two-element a, b having
\* one element.
C9_Witness ==
  /\ kern.name = "gtDDSameI"
  /\ call[1].pc = "panic"
  /\ Len(ArgA(1)) = 2 /\ Len(ArgB(1)) = 1
  /\ call[1].i = 1

\* C8: with any number of invocations in flight, in any interleaving, on
\* the same or on different input slices, no invocation writes a location
\* another invocation reads or writes (each writes only its own result, and
\* the results are in different blocks), and every invocation returns what
\* the kernel returns when it runs alone on those inputs.
C8_NoInterference ==
  /\ \A p, q \in DOMAIN call :
       (p # q /\ call[p].pc # "idle" /\ call[q].pc # "idle")
       => /\ call[p].ret # call[q].ret
          /\ call[p].wr \cap (call[q].rd \cup call[q].wr) = {}
  /\ \A p \in DOMAIN call :
       call[p].pc # "idle"
       => /\ call[p].wr \subseteq Locations(call[p].ret)
          /\ call[p].rd \subseteq UNION {Locations(x) : x \in DOMAIN orig}
          /\ Returned(p)
               => [panic |-> FALSE, retVal |-> Result(p)] = Run(kern, ArgA(p), ArgB(p))

\* Two invocations of lteDDSameI32 on the very same slices are both in the
\* middle of their loops, and a third caller (if any) is wherever it is.
C8_Witness ==
  /\ kern.name = "lteDDSameI32"
  /\ call[1].pc = "loop" /\ call[2].pc = "loop"
  /\ call[1].a = call[2].a /\ call[1].b = call[2].b /\ call[1].a # call[1].b
  /\ call[1].i = 1 /\ call[2].i = 1

----------------------------------------------------------------------------
(* Properties of the extraction.                                           *)

\* The members of a constant group, by their (first) identifier, in
\* declaration order, and the members left when the sentinel is struck out.
Members(d) == [j \in 1..Len(d.specs) |-> d.specs[j].names[1]]
NotSentinel(n) == n # gen.fam.max
Kept(d) == SelectSeq(Members(d), NotSentinel)
\* The positions of the matching groups of the parsed source.
Matching == {i \in 1..Len(gen.decls) : Accepted(gen.decls[i], gen.fam.accept)}
\* The names owed to the declarations from position i on.
RECURSIVE Owed(_)
Owed(i) ==
  IF i > Len(gen.decls) THEN <<>>
  ELSE (IF i \in Matching THEN Kept(gen.decls[i]) ELSE <<>>) \o Owed(i + 1)

\* C10: for a matching constant group constTypes returns the identifier of
\* every member, in declaration order, without any occurrence of the
\* sentinel and with nothing else removed or added (with several matching
\* groups: group after group).
C10_SentinelExcluded ==
  gen.pc = "extracted"
  => /\ \A i \in 1..Len(gen.names) : gen.names[i] # gen.fam.max
     /\ \A i \in Matching :
          \A j \in 1..Len(gen.decls[i].specs) :
            Members(gen.decls[i])[j] # gen.fam.max
            => \E n \in 1..Len(gen.names) : gen.names[n] = Members(gen.decls[i])[j]
     /\ Cardinality(Matching) = 1
          => gen.names = Kept(gen.decls[CHOOSE i \in Matching : TRUE])
     /\ gen.names = Owed(1)

\* The group {addOpType, max, subOpType} of the accepted type, sentinel in
\* the middle, has been extracted as [addOpType, subOpType].
C10_Witness ==
  /\ gen.pc = "extracted"
  /\ Len(gen.decls) = 1
  /\ Matching = {1}
  /\ Members(gen.decls[1]) = <<"addOpType", gen.fam.max, "subOpType">>
  /\ gen.names = <<"addOpType", "subOpType">>

----------------------------------------------------------------------------
(* Properties of the normalizer and of the templates.                      *)

\* The internal name v without the suffix "OpType": the s with
\* s \o "OpType" = v, and v itself when there is no such s.
Stripped(v) ==
  LET cut == {n \in 0..Len(v) : SubSeq(v, 1, n) \o "OpType" = v}
  IN  IF cut = {} THEN v ELSE SubSeq(v, 1, CHOOSE n \in cut : TRUE)
\* Whether r is s with its first letter capitalized.
Capitalized(s, r) ==
  /\ Len(r) = Len(s)
  /\ s # "" =>
       /\ Tail(r) = Tail(s)
       /\ \/ \E i \in 1..Len(LowerCase) :
               Head(s) = SubSeq(LowerCase, i, i) /\ Head(r) = SubSeq(UpperCase, i, i)
          \/ /\ \A i \in 1..Len(LowerCase) : Head(s) # SubSeq(LowerCase, i, i)
             /\ Head(r) = Head(s)

\* C11: the public name of an operator is its internal name without the
\* suffix "OpType" and with the first letter capitalized; but the unary
\* operator that would so be named Ln is named Log, and the binary operators
\* that would be named Mul and Div are named HadamardProd and HadamardDiv;
\* no override acts in the other family; and the opcode of the descriptor,
\* which is the opcode the rendered text passes on, is the internal name.
C11_NameAndOverrides ==
  gen.pc \in {"data", "rendered"}
  => LET s == Stripped(gen.v)
         FnName == gen.data.FnName
     IN  /\ IF gen.fam.fam = "unary"
            THEN IF Capitalized(s, "Ln") THEN FnName = "Log" ELSE Capitalized(s, FnName)
            ELSE CASE Capitalized(s, "Mul") -> FnName = "HadamardProd"
                   [] Capitalized(s, "Div") -> FnName = "HadamardDiv"
                   [] OTHER -> Capitalized(s, FnName)
         /\ gen.data.OpType = gen.v
         /\ gen.pc = "rendered"
            => IF gen.fam.fam = "unary"
               THEN Contains(gen.text, "newElemUnaryOp(" \o gen.v \o ", a)")
               ELSE /\ Contains(gen.text, "newElemBinOp(" \o gen.v \o ", a, b)")
                    /\ Contains(gen.text,
                                "newElemBinOp(" \o gen.v \o ", children[0], children[1])")

\* The unary operator lnOpType has been rendered as Log, with its opcode.
C11_Witness ==
  /\ gen.pc = "rendered"
  /\ gen.fam.fam = "unary"
  /\ gen.v = "lnOpType"
  /\ gen.data = [FnName |-> "Log", OpType |-> "lnOpType"]
  /\ Contains(gen.text, "func Log(a *Node)")

\* C12: the function rendered for a binary operator has the parameter
\* retSame and sets op.retSame from it exactly when the operator's public
\* name is one of Lt, Gt, Lte, Gte, Eq, Ne; otherwise it has the two
\* operands only and returns what binOpNode makes of the operation; the
\* function rendered for a unary operator never has the parameter.
C12_ResultFlag ==
  gen.pc = "rendered"
  => LET FnName == gen.data.FnName
         flagged == FnName \in {"Lt", "Gt", "Lte", "Gte", "Eq", "Ne"}
         withFlag == "func " \o FnName \o "(a, b *Node, retSame bool) (*Node, error) {"
         direct == "func " \o FnName
                   \o "(a, b *Node) (*Node, error) { return binOpNode(newElemBinOp("
                   \o gen.v \o ", a, b), a, b) }"
     IN  IF gen.fam.fam = "binary"
         THEN /\ Contains(gen.text, withFlag) <=> flagged
              /\ Contains(gen.text, "op.retSame = retSame") <=> flagged
              /\ Contains(gen.text, direct) <=> ~flagged
         ELSE /\ ~Contains(gen.text, "retSame")
              /\ Contains(gen.text, "func " \o FnName \o "(a *Node) (*Node, error) {")

\* The binary operator eqOpType has been rendered with the parameter.
C12_Witness ==
  /\ gen.pc = "rendered"
  /\ gen.fam.fam = "binary"
  /\ gen.v = "eqOpType"
  /\ gen.data.AsSame
  /\ Contains(gen.text, "func Eq(a, b *Node, retSame bool) (*Node, error) {")

----------------------------------------------------------------------------
(* Properties of a run of the generator.                                   *)

\* The content of a file: its chunks one after the other.
RECURSIVE Bytes(_)
Bytes(file) == IF file = <<>> THEN "" ELSE Head(file) \o Bytes(Tail(file))

\* The function a chunk declares first: what stands between its first
\* "func " and the parenthesis after it; "" when it declares none.
FuncName(chunk) ==
  LET p == Find(chunk, "func ", 1)
      q == IF p = 0 THEN 0 ELSE Find(chunk, "(", p + 5)
  IN  IF q = 0 THEN "" ELSE SubSeq(chunk, p + 5, q - 1)

\* Whether two chunks are the text of one operator (whole, or cut short).
SameBlock(c, d) == HasPrefix(c, d) \/ HasPrefix(d, c)

\* C13: in the catalog a generator loops over no two distinct internal
\* names have the same public name, and no function is declared by two
\* blocks of the output file.
C13_NamesUnique ==
  /\ gen.pc = "unaryLoop"
     => \A i, j \in 1..Len(gen.names) :
          gen.names[i] # gen.names[j]
          => unaryData(gen.names[i]).FnName # unaryData(gen.names[j]).FnName
  /\ gen.pc = "binaryLoop"
     => \A i, j \in 1..Len(gen.names) :
          gen.names[i] # gen.names[j]
          => binaryData(gen.names[i]).FnName # binaryData(gen.names[j]).FnName
  /\ gen.pc = "exited" /\ gen.fatal # "OpenFile"
     => \A m, n \in 1..Len(gen.file) :
          FuncName(gen.file[m]) # "" /\ FuncName(gen.file[m]) = FuncName(gen.file[n])
          => SameBlock(gen.file[m], gen.file[n])

\* The catalog of a family as its source declares it: the members of the
\* constant group of the family's type in declaration order, the sentinel
\* left out; nothing when the source has no such group.
CatalogOf(f) ==
  LET d == gen.src[f.fam].decls[1]
      IsOperator(n) == n # f.max
  IN  IF d.tok = "const" /\ d.specs # <<>> /\ d.specs[1].type = AcceptType(f)
      THEN SelectSeq([j \in 1..Len(d.specs) |-> d.specs[j].names[1]], IsOperator)
      ELSE <<>>
\* The blocks the two catalogs call for: one per operator, in declaration
\* order, the unary ones first.
BlocksOwed ==
  [j \in 1..Len(CatalogOf(Unary)) |-> unaryTemplate(unaryData(CatalogOf(Unary)[j]))]
  \o [j \in 1..Len(CatalogOf(Binary)) |-> binaryTemplate(binaryData(CatalogOf(Binary)[j]))]
\* The blocks of a file: its chunks after the header's.
BlocksOf(file) ==
  IF file # <<>> /\ HasPrefix(Header, file[1]) THEN Tail(file) ELSE file
\* Whether this run has opened the output file.
Opened == gen.pc # "main" /\ gen.fatal # "OpenFile"

\* C14: the file a run has generated holds exactly one block for every
\* operator of the two catalogs (none for a sentinel, none twice), in
\* declaration order, every unary block before every binary block.
C14_OneBlockPerOperator ==
  gen.pc = "exited" /\ gen.exit = 0 => BlocksOf(gen.file) = BlocksOwed

\* C15: two runs on the same sources that both went through leave the same
\* bytes in the output file, whatever was in it before each of them.
C15_Deterministic ==
  /\ gen.pc = "exited"
  /\ gen.exit = 0
  /\ gen.last # <<>>
  /\ gen.last[1].exit = 0
  => Bytes(gen.file) = Bytes(gen.last[1].file)

\* C16: what a run writes starts with the banner; the declaration of the
\* three imports comes after the banner, and the blocks after both.
C16_BannerFirst ==
  Opened /\ gen.pc # "header" /\ gen.errs = <<>>
  => /\ HasPrefix(gen.file[1], genmsg)
     /\ Find(gen.file[1], "import (", 1) > Len(genmsg)
     /\ Contains(gen.file[1], "\"gonum.org/v1/gonum/graph\"")
     /\ Contains(gen.file[1], "\"gorgonia.org/gorgonia/node\"")
     /\ Contains(gen.file[1], "\"gorgonia.org/gorgonia/ops\"")
     /\ \A m \in 2..Len(gen.file) :
          ~Contains(gen.file[m], genmsg) /\ ~Contains(gen.file[m], "import (")

\* The blocks the unary catalog calls for.
UnaryBlocksOwed ==
  LET catalog == CatalogOf(Unary)
  IN  [j \in 1..Len(catalog) |-> unaryTemplate(unaryData(catalog[j]))]

\* C17: when the unary source does not parse the run ends at once with a
\* nonzero status: no catalog is extracted and the file gets no block; when
\* the binary source does not parse the run ends with a nonzero status as
\* soon as it is read: none of its operators is extracted, no chunk of the
\* file is the text of a binary operator (that text starts with "// ", a
\* unary operator's with " // "), and the run leaves a file with no block
\* but those of the unary catalog, written before.
C17_ParseErrorsFatal ==
  /\ gen.src.unary.err
     => /\ gen.pc \notin {"unaryLoop", "generateBinary", "binaryLoop"}
        /\ gen.pc = "exited" => gen.exit # 0 /\ gen.fatal \in {"OpenFile", "ParseFile unary"}
        /\ gen.names = <<>>
        /\ Opened => \A m \in 1..Len(gen.file) : HasPrefix(Header, gen.file[m])
  /\ gen.src.binary.err
     => /\ gen.pc # "binaryLoop"
        /\ gen.pc = "exited" => gen.exit # 0
        /\ gen.names # <<>> => gen.names = CatalogOf(Unary)
        /\ Opened => \A m \in 1..Len(gen.file) : ~HasPrefix(gen.file[m], "// ")
        /\ Opened /\ gen.pc = "exited"
           => LET blocks == UnaryBlocksOwed
              IN  \A m \in 1..Len(gen.file) :
                    \/ HasPrefix(Header, gen.file[m])
                    \/ \E j \in 1..Len(blocks) : HasPrefix(blocks[j], gen.file[m])

\* The binary source, with a member in the part that parsed, did not parse:
\* the run has ended with status 1 after the header and two unary blocks.
C17_Witness ==
  /\ gen.pc = "exited"
  /\ gen.exit = 1
  /\ gen.fatal = "ParseFile binary"
  /\ gen.src.binary.err
  /\ CatalogOf(Binary) # <<>>
  /\ ~gen.src.unary.err
  /\ gen.errs = <<>>
  /\ Len(gen.file) = 3
  /\ BlocksOf(gen.file) = SubSeq(BlocksOwed, 1, 2)

\* C18: when an Execute has returned an error the run ends there with a
\* nonzero status: the loop renders no later operator, the run does not go
\* on to the binary family, and it does not exit with status 0.
C18_RenderErrorsFatal ==
  \A k \in 1..Len(gen.errs) :
    LET e == gen.errs[k]
    IN  e.at # "header"
        => /\ gen.pc = "exited" => gen.exit # 0
           /\ e.at = "unary" => gen.pc \notin {"generateBinary", "binaryLoop"}
           /\ e.at = "unary" /\ gen.pc = "unaryLoop" => gen.i = e.i + 1
           /\ e.at = "binary" /\ gen.pc = "binaryLoop" => gen.i = e.i + 1

\* C19: a run ends either with status 0, no error and the file written in
\* full (the header, then a block for every operator of both catalogs), or
\* with a nonzero status at its first error; it never ends with status 0
\* after a write to the output file has failed.
C19_Dichotomy ==
  gen.pc = "exited"
  => \/ /\ gen.exit = 0
        /\ gen.fatal = ""
        /\ gen.errs = <<>>
        /\ Bytes(gen.file) = Header \o Bytes(BlocksOwed)
     \/ /\ gen.exit # 0
        /\ Len(gen.errs) + (IF gen.fatal = "" THEN 0 ELSE 1) = 1

\* C20: a run that opens the output file empties it, and after a run that
\* went through the file holds what the two sources determine and nothing
\* else: the header and the blocks of the two catalogs, nothing of what the
\* file held before.
C20_FullOverwrite ==
  /\ gen.pc = "header" => gen.file = <<>>
  /\ gen.pc = "exited" /\ gen.exit = 0
     => /\ gen.file # <<>>
        /\ gen.file[1] = Header
        /\ Tail(gen.file) = BlocksOwed

\* C21: a run that ends in an error after it has opened the output file
\* does not keep what the file held: the file holds what this run wrote
\* before it ended and nothing else, that is the header when the unary
\* source did not parse, the header and the unary blocks when the binary
\* source did not parse (each of them whole when no write failed, and
\* otherwise whole or cut short); and the file is emptied and the header
\* written before a source is parsed.
C21_NotAtomic ==
  /\ gen.pc \in {"main", "header"} => gen.names = <<>> /\ gen.fatal = ""
  /\ gen.pc = "generateUnary"
     => /\ gen.names = <<>>
        /\ Len(gen.file) <= 1
        /\ \A m \in 1..Len(gen.file) : HasPrefix(Header, gen.file[m])
        /\ gen.errs = <<>> => gen.file = <<Header>>
  /\ gen.pc = "exited" /\ gen.exit # 0 /\ gen.fatal # "OpenFile"
     => LET blocks == UnaryBlocksOwed
        IN  /\ gen.fatal \in {"ParseFile unary", "ParseFile binary"}
            /\ \A m \in 1..Len(gen.file) :
                  \/ HasPrefix(Header, gen.file[m])
                  \/ \E j \in 1..Len(blocks) : HasPrefix(blocks[j], gen.file[m])
            /\ gen.errs = <<>>
               => gen.file = IF gen.fatal = "ParseFile unary" THEN <<Header>>
                             ELSE <<Header>> \o blocks

\* The run before could not open the file and left in it what an earlier
\* release had generated; this run has opened it and ended on the binary
\* source's parse error: the file holds the header and the unary blocks.
C21_Witness ==
  /\ gen.pc = "exited"
  /\ gen.exit = 1
  /\ gen.fatal = "ParseFile binary"
  /\ gen.last # <<>>
  /\ gen.last[1].file = <<Stale>>
  /\ Len(gen.file) >= 2
  /\ gen.file = <<Header>> \o UnaryBlocksOwed

\* The orderings of the places 1..n.
Orderings(n) == {p \in [1..n -> 1..n] : \A j, k \in 1..n : p[j] = p[k] => j = k}
\* The chunks the loop in progress (or, after the run, the binary loop) has
\* written, when no write has failed: those after the header and, in the
\* binary loop, after the unary blocks.
LoopBlocks ==
  LET skip == 1 + (IF gen.pc = "unaryLoop" THEN 0 ELSE Len(CatalogOf(Unary)))
  IN  SubSeq(gen.file, skip + 1, Len(gen.file))
\* The text of every operator of a source, rendered alone.
UnaryBlock == [v \in Operators(Unary) |-> unaryTemplate(unaryData(v))]
BinaryBlock == [v \in Operators(Binary) |-> binaryTemplate(binaryData(v))]
\* The text of the operator v alone, in the family of the loop.
BlockOf(v) == IF gen.pc = "unaryLoop" THEN UnaryBlock[v] ELSE BinaryBlock[v]

\* C22: the text rendered for an operator is the text of its descriptor
\* alone, whatever was rendered before it and wherever it stands: an
\* operator that is twice in the catalog is rendered twice the same, and
\* the blocks of a permuted catalog are the blocks of the catalog, permuted.
C22_Stateless ==
  (gen.pc \in {"unaryLoop", "binaryLoop"} \/ (gen.pc = "exited" /\ gen.exit = 0))
  /\ gen.errs = <<>>
  => LET blocks == LoopBlocks
         n == Len(blocks)
     IN  /\ n = (IF gen.pc = "exited" THEN Len(gen.names) ELSE gen.i - 1)
         /\ \A j \in 1..n : blocks[j] = BlockOf(gen.names[j])
         /\ \A j, k \in 1..n : gen.names[j] = gen.names[k] => blocks[j] = blocks[k]
         /\ gen.pc = "exited"
            => \A p \in Orderings(n) :
                 [j \in 1..n |-> BlockOf(gen.names[p[j]])] = [j \in 1..n |-> blocks[p[j]]]

\* The binary catalog Mul, Lt, Mul has been rendered: the two blocks of Mul
\* are the same text, without the result flag the block between them has.
C22_Witness ==
  /\ gen.pc = "exited"
  /\ gen.exit = 0
  /\ gen.errs = <<>>
  /\ gen.names = <<"mulOpType", "ltOpType", "mulOpType">>
  /\ Len(gen.file) = 4
  /\ gen.file[2] = gen.file[4]
  /\ gen.file[3] # gen.file[2]
  /\ ~Contains(gen.file[4], "retSame")
  /\ Contains(gen.file[3], "retSame")

----------------------------------------------------------------------------
(* Properties of the generated factory.                                    *)

\* C23 as stated: the closure yields an operation for a node with exactly
\* two children only.
C23_ExactlyTwo ==
  gen.pc = "called" /\ gen.out.panic = "" => Len(gen.children) = 2

\* C23: the block of every binary operator, and of no unary operator,
\* declares a factory New<publicName>Operation; its closure builds the
\* operation of the opcode the public function uses, from the first and the
\* second child in that order.  The closure does not check the number of
\* children: with fewer than two (or with a child that is no tensor node)
\* it faults and yields nothing, with two or more it yields the operation
\* of the first two.
C23_GraphAdapter ==
  /\ gen.pc = "rendered"
     => IF gen.fam.fam = "binary"
        THEN /\ FactoryName(gen.text) = "New" \o gen.data.FnName \o "Operation"
             /\ FactoryOpcode(gen.text) = gen.v
             /\ PublicOpcode(gen.text) = gen.v
             /\ FactoryAt(gen.text) > Find(gen.text, "func " \o gen.data.FnName \o "(a, b", 1)
        ELSE /\ FactoryAt(gen.text) = 0
             /\ ~Contains(gen.text, "Operation")
             /\ ~Contains(gen.text, "children")
  /\ gen.pc \in {"closure", "called"} => gen.fam.fam = "binary" /\ gen.op = gen.v
  /\ gen.pc = "called"
     => LET cs == gen.children
            nodes == \A i \in 1..Len(cs) : IsNode(cs[i])
        IN  /\ gen.out.panic = "" <=> Len(cs) >= 2 /\ nodes
            /\ gen.out.panic = "" => gen.out.op = <<"newElemBinOp", gen.v, cs[1], cs[2]>>
            /\ gen.out.panic # "" => gen.out.op = <<>>
            /\ Len(cs) < 2 /\ nodes => gen.out.panic = "index out of range"

\* The closure of NewLtOperation, called on a node with the three children
\* n2, n1, n3, has returned the operation of ltOpType on n2 and n1.
C23_Witness ==
  /\ gen.pc = "called"
  /\ gen.v = "ltOpType"
  /\ FactoryName(gen.text) = "NewLtOperation"
  /\ gen.children = <<"n2", "n1", "n3">>
  /\ gen.out.panic = ""
  /\ gen.out.op = <<"newElemBinOp", "ltOpType", "n2", "n1">>

----------------------------------------------------------------------------
(* Further properties of the extraction.                                   *)

\* C24: constTypes returns the members of the first matching constant
\* group only; the members of a later matching group are not returned.
C24_FirstGroupOnly ==
  gen.pc = "extracted" /\ Matching # {}
  => LET first == CHOOSE i \in Matching : \A k \in Matching : i <= k
     IN  gen.names = Kept(gen.decls[first])

\* Whether the source of the family declares no operator: it has no
\* constant group of the family's type, or that group is empty or holds
\* the sentinel only.
NoOperator(f) ==
  LET d == gen.src[f.fam].decls[1]
  IN  \/ d.tok # "const"
      \/ d.specs = <<>>
      \/ d.specs[1].type # AcceptType(f)
      \/ \A j \in 1..Len(d.specs) : d.specs[j].names[1] = f.max

\* C25: a source that parses and declares no operator is no error: the
\* catalog extracted from it is empty, its loop renders nothing (no chunk
\* of the file is a block of that family: a unary block starts with " // ",
\* a binary one with "// "), the run goes on to the next family, and it
\* ends in log.Fatal only when the file could not be opened or a source did
\* not parse.
C25_EmptyCatalog ==
  /\ gen.pc = "unaryLoop" /\ NoOperator(Unary)
     => gen.names = <<>> /\ gen.i = 1 /\ gen.exit = 0 /\ gen.fatal = ""
  /\ gen.pc = "binaryLoop" /\ NoOperator(Binary)
     => gen.names = <<>> /\ gen.i = 1 /\ gen.exit = 0 /\ gen.fatal = ""
  /\ Opened /\ NoOperator(Unary)
     => \A m \in 1..Len(gen.file) : ~HasPrefix(gen.file[m], " // ")
  /\ Opened /\ NoOperator(Binary)
     => \A m \in 1..Len(gen.file) : ~HasPrefix(gen.file[m], "// ")
  /\ gen.pc = "exited"
     => /\ gen.fatal = "ParseFile unary" => gen.src.unary.err
        /\ gen.fatal = "ParseFile binary" => gen.src.binary.err
        /\ gen.exit = 0 <=> gen.fatal = ""
        /\ Opened /\ ~gen.src.unary.err /\ ~gen.src.binary.err => gen.exit = 0

\* The unary source has a constant group of another type only: the run
\* has rendered no unary block, then the blocks of the binary catalog, and
\* has ended with status 0.
C25_Witness ==
  /\ gen.pc = "exited"
  /\ gen.exit = 0
  /\ gen.errs = <<>>
  /\ gen.src.unary.decls[1].tok = "const"
  /\ gen.src.unary.decls[1].specs # <<>>
  /\ gen.src.unary.decls[1].specs[1].type.name = "int"
  /\ CatalogOf(Binary) # <<>>
  /\ Tail(gen.file) = [j \in 1..Len(gen.names) |-> binaryTemplate(binaryData(gen.names[j]))]
  /\ gen.file[1] = Header

\* Whether the first member of the declaration d, a constant group,
\* carries the family's type as a plain identifier.
FirstTyped(d) ==
  /\ d.tok = "const"
  /\ d.specs # <<>>
  /\ d.specs[1].type = [node |-> "Ident", name |-> gen.fam.accept]
\* The first identifier of every member of d but the sentinel's.
FirstIdents(d) ==
  LET IsOperator(n) == n # gen.fam.max
  IN  SelectSeq([j \in 1..Len(d.specs) |-> Head(d.specs[j].names)], IsOperator)
\* The first identifiers of the groups among ds that are FirstTyped.
RECURSIVE Collected(_)
Collected(ds) ==
  IF ds = <<>> THEN <<>>
  ELSE (IF FirstTyped(Head(ds)) THEN FirstIdents(Head(ds)) ELSE <<>>) \o Collected(Tail(ds))
\* Whether a member of d after the first has the type expression t.
LaterTyped(d, t) == \E j \in 2..Len(d.specs) : d.specs[j].type = t

\* C26: constTypes takes a constant group exactly when its first member
\* carries the accepted type as a plain identifier.  A group whose first
\* member has no type, or a type that is no identifier or another one, gives
\* no name, whatever its later members declare; of a group that is taken
\* the first identifier of every member (the sentinel aside) is collected,
\* whatever type the later members declare; a declaration that is no
\* constant group gives no name.
C26_FirstMemberDecides ==
  gen.pc = "extracted"
  => /\ gen.names = Collected(gen.decls)
     /\ (\A i \in 1..Len(gen.decls) : ~FirstTyped(gen.decls[i])) => gen.names = <<>>
     /\ \A i \in 1..Len(gen.decls) :
          (FirstTyped(gen.decls[i]) /\ \A k \in 1..Len(gen.decls) : k # i => ~FirstTyped(gen.decls[k]))
          => gen.names = FirstIdents(gen.decls[i])
     /\ \A i \in 1..Len(gen.decls) :
          FirstTyped(gen.decls[i]) <=> Accepted(gen.decls[i], gen.fam.accept)

\* Two constant groups have been read: of the first, whose first member
\* is untyped and whose second has the accepted type, nothing is
\* extracted; the second, whose only member has the accepted type, is taken.
C26_Witness ==
  /\ gen.pc = "extracted"
  /\ Len(gen.decls) = 2
  /\ gen.decls[1].tok = "const"
  /\ Len(gen.decls[1].specs) = 2
  /\ gen.decls[1].specs[1].type = NoType
  /\ gen.decls[1].specs[1].names = <<"addOpType">>
  /\ LaterTyped(gen.decls[1], AcceptType(gen.fam))
  /\ FirstTyped(gen.decls[2])
  /\ gen.names = <<"subOpType">>

----------------------------------------------------------------------------
(* Further properties of the kernels.                                      *)

\* What a kernel of the result kind being called answers for a comparison
\* that holds, or does not: the boolean, or K's 1 or 0.
Answer(holds) ==
  IF kern.res = "Bools" THEN holds ELSE Conv(kern.elem, IF holds THEN 1 ELSE 0)

\* C27: the result of an array-array kernel has len(a) elements whatever
\* len(b) is.  The kernel panics only when len(b) < len(a), and then it
\* cannot return: its loop stops at an index within a that is not within b.
\* With len(b) >= len(a) it returns, for every i below len(a), the
\* comparison of a[i] and b[i]: what it returns on a and the first len(a)
\* elements of b, the rest of b being ignored.  With an empty a it returns
\* the empty slice for any b.
C27_ExactLength ==
  \A p \in DOMAIN call :
    (kern.shp = "DD" /\ call[p].pc # "idle")
    => LET a == ArgA(p)
           b == ArgB(p)
       IN  /\ Len(Result(p)) = Len(a)
           /\ call[p].pc = "panic" => Len(b) < Len(a) /\ call[p].i = Len(b)
           /\ Len(b) < Len(a)
              => /\ ~Returned(p)
                 /\ call[p].pc = "loop" => call[p].i <= Len(b) /\ call[p].i < Len(a)
           /\ Returned(p)
              => /\ Len(b) >= Len(a)
                 /\ \A i \in 1..Len(a) : Result(p)[i] = Answer(Holds(a[i], b[i]))
                 /\ [panic |-> FALSE, retVal |-> Result(p)]
                      = Run(kern, a, SubSeq(b, 1, Len(a)))
           /\ Len(a) = 0 => call[p].pc # "panic" /\ Result(p) = <<>>

\* gtDDSameF64([1], [0, NaN]) has returned [1]: b is longer than a and its
\* second element is not read.
C27_Witness ==
  /\ kern.name = "gtDDSameF64"
  /\ Returned(1)
  /\ ArgA(1) = <<F(1)>>
  /\ ArgB(1) = <<F(0), NaN>>
  /\ Result(1) = <<F(1)>>

====
